---- MODULE Spec2Model ----
(***************************************************************************)
(* The isolation-forest anomaly service (if-service): the request handlers *)
(* GET /anomalies/all and /anomalies/all_error, the metrics client they    *)
(* call, the sanitizer, the z-score normalizer, the isolation forest and   *)
(* the event reporter.                                                     *)
(*                                                                         *)
(* float64 values are modelled in fixed point: a real r is the integer     *)
(* r * FixedOne.  NaN and the infinities, which the sanitizer removes, are *)
(* separate tagged values (see FNum, FNaN, FPosInf, FNegInf).              *)
(* Go slices are sequences; Go's 0-based indices are kept (At(s, i)).      *)
(***************************************************************************)
EXTENDS Integers, Sequences, FiniteSets, TLC

(***************************************************************************)
(* Bounds of the model.                                                    *)
(***************************************************************************)
\* fixed-point resolution of a float64: 1.0 is FixedOne
FixedOne == 1000
\* number of trees per forest in the model (detectAnomalies asks for 100)
NumTrees == 2
\* rand.Float64() yields j / RandDen for j in 0 .. RandDen-1
RandDen == 2
\* longest series handed to detectAnomalies on its own
MaxPoints == 3
\* largest k handed to detectAnomalies on its own
MaxK == 4
\* most series in the backend's batch
MaxSeries == 2
\* most raw pairs in one series of the batch
MaxPairs == 2
\* raw pairs of the one series of a long batch
LongPairs == 4

(***************************************************************************)
(* Program constants.                                                      *)
(***************************************************************************)
\* iforest.New(norm, 100, min(64, len(norm))): the subsample cap
SubsampleCap == 64
\* detectAnomalies(vals, 3): top-3 per series
TopK == 3
\* window := 30 (WINDOW_MINUTES)
Window == 30

(***************************************************************************)
(* Sequence and arithmetic helpers.                                        *)
(***************************************************************************)
\* s[i] of a Go slice, 0-based
At(s, i) == s[i + 1]

Range(s) == {s[i] : i \in 1 .. Len(s)}

RECURSIVE SumSeq(_)
SumSeq(s) == IF s = <<>> THEN 0 ELSE Head(s) + SumSeq(Tail(s))

\* fixed-point product and quotient (den # 0)
FixMul(a, b) == (a * b) \div FixedOne
FixDiv(a, b) == (a * FixedOne) \div b

\* integer square root: the largest r with r*r <= x
RECURSIVE ISqrtIn(_, _, _)
ISqrtIn(x, lo, hi) ==
    IF lo >= hi THEN lo
    ELSE LET mid == (lo + hi + 1) \div 2
         IN  IF mid * mid <= x THEN ISqrtIn(x, mid, hi) ELSE ISqrtIn(x, lo, mid - 1)
ISqrt(x) == ISqrtIn(x, 0, IF x < 46340 THEN x ELSE 46340)

\* math.Sqrt on a fixed-point value
FixSqrt(a) == ISqrt(a * FixedOne)

RECURSIVE Pow2Int(_)
Pow2Int(n) == IF n <= 0 THEN 1 ELSE 2 * Pow2Int(n - 1)

\* math.Ceil(math.Log2(n)) for n >= 1: the least d with 2^d >= n
RECURSIVE CeilLog2From(_, _)
CeilLog2From(n, d) == IF Pow2Int(d) >= n THEN d ELSE CeilLog2From(n, d + 1)
CeilLog2(n) == CeilLog2From(n, 0)

(***************************************************************************)
(* float64 values: finite ones in fixed point, NaN and the infinities.     *)
(***************************************************************************)
FNum(v) == [k |-> "fin", v |-> v]
FNaN == [k |-> "nan", v |-> 0]
FPosInf == [k |-> "+inf", v |-> 0]
FNegInf == [k |-> "-inf", v |-> 0]

IsNaN(f) == f.k = "nan"
IsInf(f) == f.k \in {"+inf", "-inf"}

\* the largest finite float64 of the model (math.MaxFloat64), in fixed point
MaxFloat == 40000

\* the float64 of an exact result x: an infinity when it is out of range
Overflow(x) ==
    IF x > MaxFloat THEN FPosInf ELSE IF x < -MaxFloat THEN FNegInf ELSE FNum(x)

\* the sign of a float64 that is not NaN: -1, 0 or 1
FSign(a) ==
    IF a.k = "+inf" THEN 1 ELSE IF a.k = "-inf" THEN -1
    ELSE IF a.v > 0 THEN 1 ELSE IF a.v < 0 THEN -1 ELSE 0

\* the infinity of a sign (sgn # 0)
FInfOf(sgn) == IF sgn > 0 THEN FPosInf ELSE FNegInf

FNeg(a) ==
    IF IsNaN(a) THEN FNaN
    ELSE IF IsInf(a) THEN FInfOf(-FSign(a))
    ELSE FNum(-a.v)

\* a + b, a - b, a * b, a / b and math.Sqrt of float64 (IEEE 754)
FAdd(a, b) ==
    IF IsNaN(a) \/ IsNaN(b) THEN FNaN
    ELSE IF IsInf(a) /\ IsInf(b) THEN (IF a.k = b.k THEN a ELSE FNaN)
    ELSE IF IsInf(a) THEN a
    ELSE IF IsInf(b) THEN b
    ELSE Overflow(a.v + b.v)

FSub(a, b) == FAdd(a, FNeg(b))

FMul(a, b) ==
    IF IsNaN(a) \/ IsNaN(b) THEN FNaN
    ELSE IF IsInf(a) \/ IsInf(b)
    THEN (IF FSign(a) * FSign(b) = 0 THEN FNaN ELSE FInfOf(FSign(a) * FSign(b)))
    ELSE Overflow(FixMul(a.v, b.v))

FDiv(a, b) ==
    IF IsNaN(a) \/ IsNaN(b) THEN FNaN
    ELSE IF IsInf(a) /\ IsInf(b) THEN FNaN
    ELSE IF IsInf(a) THEN FInfOf(IF FSign(b) < 0 THEN -FSign(a) ELSE FSign(a))
    ELSE IF IsInf(b) THEN FNum(0)
    ELSE IF b.v = 0 THEN (IF a.v = 0 THEN FNaN ELSE FInfOf(FSign(a)))
    ELSE Overflow(FixDiv(a.v, b.v))

FSqrt(a) ==
    IF IsNaN(a) \/ FSign(a) < 0 THEN FNaN
    ELSE IF IsInf(a) THEN a
    ELSE FNum(FixSqrt(a.v))

(***************************************************************************)
(* internal/iforest: the isolation forest.                                 *)
(***************************************************************************)
\* c(n) = 2 H(n-1) - 2 (n-1)/n, and 0 for n <= 1
RECURSIVE Harmonic(_)
Harmonic(m) == IF m <= 0 THEN 0 ELSE Harmonic(m - 1) + FixedOne \div m

\* averagePathLength with a fault: the harmonic loop runs to n, not n-1
averagePathLengthToN(n) ==
    IF n <= 1 THEN 0
    ELSE 2 * Harmonic(n) - (2 * (n - 1) * FixedOne) \div n

averagePathLength(n) ==
    IF n <= 1 THEN 0
    ELSE 2 * Harmonic(n - 1) - (2 * (n - 1) * FixedOne) \div n

\* &Tree{Leaf: true, Depth: depth}
LeafNode(depth) == [Leaf |-> TRUE, Depth |-> depth]

\* &Tree{Split: split, Left: l, Right: r, Leaf: false, Depth: depth}
SplitNode(split, l, r, depth) ==
    [Leaf |-> FALSE, Depth |-> depth, Split |-> split, Left |-> l, Right |-> r]

\* a NaN among the forest's numbers: no finite float64 of the model
NaNValue == 2 * MaxFloat + 1

\* a < b of float64: false when either is NaN
Less(a, b) == a # NaNValue /\ b # NaNValue /\ a < b

\* minV, maxV := data[0], data[0], then every v < minV and v > maxV is taken:
\* a NaN at data[0] stays, a NaN elsewhere is passed over
MinOf(data) ==
    IF data[1] = NaNValue THEN NaNValue
    ELSE CHOOSE v \in Range(data) \ {NaNValue} :
             \A w \in Range(data) \ {NaNValue} : v <= w
MaxOf(data) ==
    IF data[1] = NaNValue THEN NaNValue
    ELSE CHOOSE v \in Range(data) \ {NaNValue} :
             \A w \in Range(data) \ {NaNValue} : v >= w

\* the values rand.Float64() can return, in [0, 1)
RandFloats == {(j * FixedOne) \div RandDen : j \in 0 .. RandDen - 1}

\* split := minV + rand.Float64()*(maxV-minV)
SplitAt(minV, maxV, r) ==
    IF minV = NaNValue \/ maxV = NaNValue THEN NaNValue
    ELSE minV + FixMul(r, maxV - minV)

\* the left and right partitions of fitTree's loop
LeftPart(data, split) == SelectSeq(data, LAMBDA v : Less(v, split))
RightPart(data, split) == SelectSeq(data, LAMBDA v : ~Less(v, split))

\* fitTree with a fault: the depth test is off by one
RECURSIVE fitTreeTooDeep(_, _, _)
fitTreeTooDeep(data, depth, maxDepth) ==
    IF depth > maxDepth \/ Len(data) <= 1 THEN {LeafNode(depth)}
    ELSE LET minV == MinOf(data)
             maxV == MaxOf(data)
         IN  IF minV # NaNValue /\ minV = maxV THEN {LeafNode(depth)}
             ELSE UNION { LET split == SplitAt(minV, maxV, r)
                          IN  { SplitNode(split, l, rt, depth) :
                                  l \in fitTreeTooDeep(LeftPart(data, split), depth + 1,
                                                       maxDepth),
                                  rt \in fitTreeTooDeep(RightPart(data, split), depth + 1,
                                                        maxDepth) }
                          : r \in RandFloats }

\* fitTree(data, depth, maxDepth): the trees it can return, one per outcome of
\* the random source
RECURSIVE fitTree(_, _, _)
fitTree(data, depth, maxDepth) ==
    IF depth >= maxDepth \/ Len(data) <= 1 THEN {LeafNode(depth)}
    ELSE LET minV == MinOf(data)
             maxV == MaxOf(data)
         IN  IF minV # NaNValue /\ minV = maxV THEN {LeafNode(depth)}
             ELSE UNION { LET split == SplitAt(minV, maxV, r)
                          IN  { SplitNode(split, l, rt, depth) :
                                  l \in fitTree(LeftPart(data, split), depth + 1, maxDepth),
                                  rt \in fitTree(RightPart(data, split), depth + 1, maxDepth) }
                          : r \in RandFloats }

\* ClampPsi with a fault: a psi above len(data) is kept
ClampPsiNoUpper(data, psi) == IF psi <= 0 THEN Len(data) ELSE psi

\* if psi <= 0 || psi > len(data) { psi = len(data) }
ClampPsi(data, psi) == IF psi <= 0 \/ psi > Len(data) THEN Len(data) ELSE psi

\* int(math.Ceil(math.Log2(float64(psi)))): for psi = 0 the conversion of -Inf
\* to int is implementation-dependent
MaxDepths(psi) ==
    IF psi <= 0 THEN {-2147483647, 0, 2147483647} ELSE {CeilLog2(psi)}

\* subsample[j] = data[rand.Intn(len(data))] for j < psi
Subsamples(data, psi) ==
    { [j \in 1 .. psi |-> data[f[j]]] : f \in [1 .. psi -> 1 .. Len(data)] }

\* the trees one iteration of New's loop can produce
NewTrees(data, psi) ==
    UNION { fitTree(sub, 0, md) : sub \in Subsamples(data, psi), md \in MaxDepths(psi) }

\* New(data, t, psi): the forests it can return
New(data, t, psi) ==
    LET p == ClampPsi(data, psi)
    IN  { [Trees |-> ts, C |-> averagePathLength(p)] :
            ts \in [1 .. t -> NewTrees(data, p)] }

\* pathLenTree with a fault: a value equal to the split goes left
RECURSIVE pathLenTreeLeftOnEqual(_, _)
pathLenTreeLeftOnEqual(t, x) ==
    IF t.Leaf THEN t.Depth * FixedOne
    ELSE IF Less(x, t.Split) \/ x = t.Split THEN pathLenTreeLeftOnEqual(t.Left, x)
    ELSE pathLenTreeLeftOnEqual(t.Right, x)

RECURSIVE pathLenTree(_, _)
pathLenTree(t, x) ==
    IF t.Leaf THEN t.Depth * FixedOne
    ELSE IF Less(x, t.Split) THEN pathLenTree(t.Left, x)
    ELSE pathLenTree(t.Right, x)

\* pl / float64(len(f.Trees))
pathLength(f, x) ==
    SumSeq([i \in 1 .. Len(f.Trees) |-> pathLenTree(f.Trees[i], x)]) \div Len(f.Trees)

\* 2^(-1/2^i) in fixed point, by repeated square roots of 1/2
RECURSIVE Root2(_)
Root2(i) == IF i <= 0 THEN FixedOne \div 2 ELSE FixSqrt(Root2(i - 1))

\* binary digits of the exponent's fraction that math.Pow is modelled to use
PowBits == 8

\* the table of those roots
RootTable == [i \in 1 .. PowBits |-> Root2(i)]

\* 2^(-frac) for a fraction frac in [0, 1): the binary digits of frac, from
\* the i-th on, each multiplying acc by its root
RECURSIVE Pow2Frac(_, _, _)
Pow2Frac(frac, i, acc) ==
    IF i > PowBits \/ frac = 0 THEN acc
    ELSE IF 2 * frac >= FixedOne
         THEN Pow2Frac(2 * frac - FixedOne, i + 1, FixMul(acc, RootTable[i]))
         ELSE Pow2Frac(2 * frac, i + 1, acc)

\* Pow2Neg with a fault: the sign of the exponent is lost, 2^q
Pow2Pos(q) ==
    FixDiv(FixedOne, Pow2Frac(q % FixedOne, 1, FixedOne)) * Pow2Int(q \div FixedOne)

\* math.Pow(2, -q) for a fixed-point q >= 0
Pow2Neg(q) == Pow2Frac(q % FixedOne, 1, FixedOne) \div Pow2Int(q \div FixedOne)

\* Forest.Score
Score(f, x) ==
    IF f.C = 0 THEN 0
    ELSE LET E == pathLength(f, x) IN Pow2Neg(FixDiv(E, f.C))

(***************************************************************************)
(* cmd/if-service: normalisation and detection.                            *)
(***************************************************************************)
\* 1e-9, the guard against a zero deviation: the smallest positive fixed-point
\* number
Epsilon == 1

min(a, b) == IF a < b THEN a ELSE b

\* the float64 sum of s[1 .. n], added from the left
RECURSIVE FSumTo(_, _)
FSumTo(s, n) == IF n = 0 THEN FNum(0) ELSE FAdd(FSumTo(s, n - 1), s[n])

\* meanStd(x) = <<mu, sd>>
meanStd(x) ==
    IF Len(x) = 0 THEN <<FNum(0), FNum(FixedOne)>>
    ELSE LET n == FNum(Len(x) * FixedOne)
             mu == FDiv(FSumTo(x, Len(x)), n)
             sq == [i \in 1 .. Len(x) |-> FMul(FSub(x[i], mu), FSub(x[i], mu))]
         IN  <<mu, FSqrt(FDiv(FSumTo(sq, Len(x)), n))>>

\* norm[i] = (v - mu) / (sd + 1e-9)
Normalize(vals) ==
    LET ms == meanStd(vals)
    IN  [i \in 1 .. Len(vals) |->
            FDiv(FSub(vals[i], ms[1]), FAdd(ms[2], FNum(Epsilon)))]

\* the float64 values of a series as the numbers the forest works on: a finite
\* value is its fixed-point number, a NaN is NaNValue, an infinity lies beyond
\* every finite value
FiniteValues(s) ==
    [i \in 1 .. Len(s) |->
        IF IsNaN(s[i]) THEN NaNValue
        ELSE IF IsInf(s[i]) THEN FSign(s[i]) * (MaxFloat + 1)
        ELSE s[i].v]

\* scores[i] = f.Score(v)
ScoreAll(f, norm) == [i \in 1 .. Len(norm) |-> Score(f, norm[i])]

\* SortLess with a fault: the comparison is turned round
SortLessAscending(scores, a, b) == At(scores, a) < At(scores, b)

\* less(i, j) of the sort: scores[idx[i]] > scores[idx[j]]
SortLess(scores, a, b) == At(scores, a) > At(scores, b)

\* the orders sort.Slice can leave idx = 0 .. n-1 in: it is not stable, so any
\* permutation in which no element is less than the one before it
SortOrders(scores) ==
    LET n == Len(scores)
    IN  { p \in [1 .. n -> 0 .. n - 1] :
            /\ \A a, b \in 1 .. n : a # b => p[a] # p[b]
            /\ \A a \in 1 .. n - 1 : ~SortLess(scores, p[a + 1], p[a]) }

\* TopOf with a fault: the cut to k is forgotten
TopOfUncut(order, k) == order

\* if k > len(idx) { k = len(idx) }; idx[:k]
TopOf(order, k) == SubSeq(order, 1, IF k > Len(order) THEN Len(order) ELSE k)

\* detectAnomalies(vals, k): the results <<idx, scores>> it can return
detectAnomalies(vals, k) ==
    LET norm == FiniteValues(Normalize(vals))
    IN  UNION { LET scores == ScoreAll(f, norm)
                IN  { [idx |-> TopOf(order, k), scores |-> scores] :
                        order \in SortOrders(scores) }
                : f \in New(norm, NumTrees, min(SubsampleCap, Len(norm))) }

(***************************************************************************)
(* cmd/if-service: sanitizer and event reporter.                           *)
(***************************************************************************)
\* sane with a fault: every value passes
sanePassThrough(v) == <<v, TRUE>>

\* sane(v) = <<value, ok>>
sane(v) == IF IsNaN(v) \/ IsInf(v) THEN <<FNum(0), FALSE>> ELSE <<v, TRUE>>

\* var f float64; fmt.Sscan(str, &f): f keeps 0 when str does not scan
Sscan(str) ==
    CASE str = "1" -> FNum(FixedOne)
      [] str = "4" -> FNum(4 * FixedOne)
      [] str = "NaN" -> FNaN
      [] str = "+Inf" -> FPosInf
      [] str = "-Inf" -> FNegInf
      [] OTHER -> FNum(0)

\* time.Unix(int64(sec), 0): sec is a float64 number of seconds
TimeUnix(sec) == sec \div FixedOne

\* ts[j].Format(time.RFC3339)
FormatRFC3339(t) == <<"RFC3339", t>>

\* SanitizeValues with a fault: a pair with an invalid magnitude is dropped
RECURSIVE SanitizeValuesDropInvalid(_)
SanitizeValuesDropInvalid(values) ==
    IF values = <<>> THEN <<<<>>, <<>>>>
    ELSE LET v == Head(values)
             rest == SanitizeValuesDropInvalid(Tail(values))
         IN  IF Len(v) # 2 THEN rest
             ELSE LET sv == sane(Sscan(v[2]))
                  IN  IF sv[2]
                      THEN <<<<sv[1]>> \o rest[1], <<TimeUnix(v[1])>> \o rest[2]>>
                      ELSE rest

\* the loop over s.Values of fetchAllRPS / fetchAllErrorRate:
\* <<vals, ts>> of one series
RECURSIVE SanitizeValues(_)
SanitizeValues(values) ==
    IF values = <<>> THEN <<<<>>, <<>>>>
    ELSE LET v == Head(values)
             rest == SanitizeValues(Tail(values))
         IN  IF Len(v) # 2 THEN rest
             ELSE LET f == Sscan(v[2])
                      sv == sane(f)
                      val == IF sv[2] THEN sv[1] ELSE FNum(0)
                  IN  <<<<val>> \o rest[1], <<TimeUnix(v[1])>> \o rest[2]>>

\* one log line: "anomaly detected: service=%s metric=%s"
AnomalyEvent(serviceName, metric) == [service |-> serviceName, metric |-> metric]

\* logAnomalyEvents with a fault: a score equal to the threshold writes no line
RECURSIVE logAnomalyEventsStrict(_, _, _, _, _)
logAnomalyEventsStrict(serviceName, metric, topIdx, scores, threshold) ==
    IF topIdx = <<>> THEN <<>>
    ELSE LET i == Head(topIdx)
             rest == logAnomalyEventsStrict(serviceName, metric, Tail(topIdx), scores,
                                            threshold)
         IN  IF i >= 0 /\ i < Len(scores) /\ At(scores, i) > threshold
             THEN <<AnomalyEvent(serviceName, metric)>> \o rest
             ELSE rest

\* logAnomalyEvents: the lines it writes, in order
RECURSIVE logAnomalyEvents(_, _, _, _, _)
logAnomalyEvents(serviceName, metric, topIdx, scores, threshold) ==
    IF topIdx = <<>> THEN <<>>
    ELSE LET i == Head(topIdx)
             rest == logAnomalyEvents(serviceName, metric, Tail(topIdx), scores, threshold)
         IN  IF i >= 0 /\ i < Len(scores) /\ At(scores, i) >= threshold
             THEN <<AnomalyEvent(serviceName, metric)>> \o rest
             ELSE rest

(***************************************************************************)
(* internal/mimir: the metrics client, and the backend's replies.          *)
(***************************************************************************)
\* a Go error value: nil, or an error with its message
Nil == [isErr |-> FALSE, msg |-> <<>>]
Err(msg) == [isErr |-> TRUE, msg |-> msg]

\* m[key] of a Go map (or a JSON object's field): "" when the key is missing
Lookup(m, key) == IF key \in DOMAIN m THEN m[key] ELSE ""

\* fmt.Errorf(format) without arguments: a verb of the format has no operand
Errorf(format) ==
    [i \in 1 .. Len(format) |->
        IF format[i] = "%d" THEN "%!d(MISSING)"
        ELSE IF format[i] = "%%" THEN "%"
        ELSE format[i]]

\* resp.Status of an HTTP status code
StatusText(code) ==
    CASE code = 200 -> "200 OK"
      [] code = 503 -> "503 Service Unavailable"
      [] OTHER -> "unknown"

\* Client.QueryRange on the backend's reply: [data, err].  data is the
\* json.RawMessage of the reply's "data" field.
NoRaw == [present |-> FALSE]
QueryRange(reply) ==
    IF reply.kind = "transport" THEN [data |-> NoRaw, err |-> Err(reply.err)]
    ELSE IF reply.code \div 100 # 2
    THEN [data |-> NoRaw,
          err |-> Err(<<"mimir query_range failed: ", StatusText(reply.code)>>)]
    ELSE IF ~reply.body.valid
    THEN [data |-> NoRaw, err |-> Err(<<"invalid character">>)]
    ELSE LET obj == reply.body.obj
             status == Lookup(obj, "status")
             error == IF "error" \in DOMAIN obj THEN obj.error ELSE <<>>
         IN  IF status # "success"
             THEN IF error # <<>>
                  THEN [data |-> NoRaw, err |-> Err(Errorf(error))]
                  ELSE [data |-> NoRaw, err |-> Err(<<"query_range failed">>)]
             ELSE [data |-> IF "data" \in DOMAIN obj
                            THEN [present |-> TRUE, json |-> obj.data]
                            ELSE NoRaw,
                   err |-> Nil]

\* json.Unmarshal(raw, &resp) with resp struct{ Data promMatrix `json:"data"` }:
\* resp.Data.Result.  Only the field "data" of the raw object is read.
UnmarshalResult(json) ==
    IF "data" \in DOMAIN json
    THEN IF "result" \in DOMAIN json.data THEN json.data.result ELSE <<>>
    ELSE <<>>

NoFetch == [series |-> <<>>, allVals |-> <<>>, allTs |-> <<>>, err |-> Nil]

\* the body shared by fetchAllRPS and fetchAllErrorRate after the query is built
FetchAll(reply) ==
    LET qr == QueryRange(reply)
    IN  IF qr.err.isErr THEN [NoFetch EXCEPT !.err = qr.err]
        ELSE IF ~qr.data.present
        THEN [NoFetch EXCEPT !.err = Err(<<"unexpected end of JSON input">>)]
        ELSE LET result == UnmarshalResult(qr.data.json)
             IN  IF Len(result) = 0 THEN [NoFetch EXCEPT !.err = Err(<<"no data">>)]
                 ELSE [series |-> result,
                       allVals |-> [i \in 1 .. Len(result) |->
                                       SanitizeValues(result[i].values)[1]],
                       allTs |-> [i \in 1 .. Len(result) |->
                                       SanitizeValues(result[i].values)[2]],
                       err |-> Nil]

fetchAllRPS(reply) == FetchAll(reply)
fetchAllErrorRate(reply) == FetchAll(reply)

(***************************************************************************)
(* The backend's replies to one range query.                               *)
(***************************************************************************)
\* the magnitude strings of a raw pair
RawStrings == {"1", "4", "NaN", "+Inf"}

\* the timestamp of the p-th raw pair: p minutes and a half second
RawSec(p) == p * 60 * FixedOne + FixedOne \div 2

\* a raw pair [sec, "value"], or one of wrong arity [sec]
RawPair(p, c) == IF c = "arity" THEN <<RawSec(p)>> ELSE <<RawSec(p), c>>

RawValueLists ==
    UNION { { [p \in 1 .. n |-> RawPair(p, c[p])] :
                c \in [1 .. n -> RawStrings \cup {"arity"}] } : n \in 0 .. MaxPairs }

\* label sets of a series: with and without a service_name
LabelSets ==
    { [service_name |-> "cart", span_name |-> "GET /", peer_service |-> "web"],
      [span_name |-> "GET /"] }

SeriesPool == { [metric |-> m, values |-> vs] : m \in LabelSets, vs \in RawValueLists }

\* batches of up to MaxSeries series of up to MaxPairs pairs each
ShortBatches == UNION { [1 .. n -> SeriesPool] : n \in 0 .. MaxSeries }

\* batches of one labelled series of LongPairs pairs, each a number or NaN
LongBatches ==
    { << [metric |-> [service_name |-> "cart", span_name |-> "GET /",
                      peer_service |-> "web"],
          values |-> [p \in 1 .. LongPairs |-> RawPair(p, c[p])]] >> :
        c \in [1 .. LongPairs -> {"1", "4", "NaN"}] }

Batches == ShortBatches \cup LongBatches

\* the "data" object of a reply: the matrix itself, as the Prometheus API sends
\* it, or an object that wraps the matrix in a field "data"
Matrix(batch) == [resultType |-> "matrix", result |-> batch]
Wrapped(batch) == [data |-> Matrix(batch)]

\* error texts of the backend; the second holds a formatting verb
ErrorTexts == { <<>>, <<"bad_data">>, <<"limit ", "%d", " reached">> }

Replies ==
    { [kind |-> "transport", err |-> <<"connection refused">>],
      [kind |-> "http", code |-> 503, body |-> [valid |-> FALSE]],
      [kind |-> "http", code |-> 200, body |-> [valid |-> FALSE]],
      [kind |-> "http", code |-> 200,
       body |-> [valid |-> TRUE, obj |-> [status |-> "success"]]] }
    \cup { [kind |-> "http", code |-> 200,
            body |-> [valid |-> TRUE, obj |-> [status |-> "error", error |-> e]]] :
              e \in ErrorTexts }
    \cup { [kind |-> "http", code |-> 200,
            body |-> [valid |-> TRUE, obj |-> [status |-> "success", data |-> Matrix(b)]]] :
              b \in Batches }
    \cup { [kind |-> "http", code |-> 200,
            body |-> [valid |-> TRUE, obj |-> [status |-> "success", data |-> Wrapped(b)]]] :
              b \in Batches }

\* ANOMALY_SCORE_THRESHOLD: the default 0.6, and 1.0
Thresholds == { (6 * FixedOne) \div 10, FixedOne }

(***************************************************************************)
(* The MCP server (package main of the mcp module): JSON-RPC 2.0 requests  *)
(* decoded by encoding/json, server.handle and its query helpers.          *)
(***************************************************************************)
\* JSON values of a request: a string, a number (fixed point), null
JStr(s) == [t |-> "str", s |-> s, n |-> 0]
JNum(n) == [t |-> "num", s |-> "", n |-> n]
JNull == [t |-> "null", s |-> "", n |-> 0]
\* the field is not in the object
JAbsent == [t |-> "absent", s |-> "", n |-> 0]

\* a json.RawMessage: of kind "missing" (nil: the field was absent), "null"
\* (the text null), "string" (a JSON string), or "object" with its fields
Raw(kind, fields) == [kind |-> kind, fields |-> fields]

\* the tools server.handle advertises, in the order of tools/list
ToolNames ==
    <<"servicegraph_topology", "servicegraph_latency_p95", "spanmetrics_latency_quantile",
      "spanmetrics_rps", "spanmetrics_top_callers", "spanmetrics_top_endpoints">>

\* the fields of the struct a of each tool (encoding/json matches the keys
\* without regard to case; the requests of the model spell them as the schema)
ArgFields(tool) ==
    CASE tool = "servicegraph_topology" -> {"windowMinutes"}
      [] tool = "servicegraph_latency_p95" -> {"client", "server", "windowMinutes"}
      [] tool = "spanmetrics_latency_quantile" ->
            {"client", "server", "quantile", "windowMinutes"}
      [] tool = "spanmetrics_rps" -> {"server", "client", "windowMinutes"}
      [] tool = "spanmetrics_top_callers" -> {"server", "limit", "windowMinutes"}
      [] tool = "spanmetrics_top_endpoints" -> {"server", "limit", "windowMinutes"}
      [] OTHER -> {}

\* "required" of each tool's inputSchema
RequiredArgs(tool) ==
    CASE tool = "servicegraph_latency_p95" -> {"client", "server"}
      [] tool = "spanmetrics_latency_quantile" -> {"client", "server", "quantile"}
      [] tool = "spanmetrics_rps" -> {"server"}
      [] tool = "spanmetrics_top_callers" -> {"server"}
      [] tool = "spanmetrics_top_endpoints" -> {"server"}
      [] OTHER -> {}

\* the result of tools/list: each tool's name and the required list of its schema
ToolsList ==
    [type |-> "tools",
     tools |-> [j \in 1 .. Len(ToolNames) |->
                  [name |-> ToolNames[j], required |-> RequiredArgs(ToolNames[j])]]]

InitializeResult ==
    [type |-> "initialize", protocolVersion |-> "2024-11-05",
     serverInfo |-> [name |-> "mimir-servicegraph", version |-> "0.1.0"]]

\* map[string]any{}
EmptyObject == [type |-> "object"]

\* the zero value of the struct a (the fields of all tools together)
ZeroArgs == [client |-> "", server |-> "", quantile |-> 0, limit |-> 0, windowMinutes |-> 0]

\* DeclareArgs with a fault: a is the memory the earlier call left
DeclareArgsKept(stale) == stale

\* var a struct{...} at the top of a tool's case: a new zero value, whatever an
\* earlier call left in its own a
DeclareArgs(stale) == ZeroArgs

\* json.Unmarshal accepts the value for the field: null for any field, a string
\* for a string, a number without fraction for an int, a number for a float64
Assignable(key, v) ==
    \/ v.t = "null"
    \/ key \in {"client", "server"} /\ v.t = "str"
    \/ key \in {"windowMinutes", "limit"} /\ v.t = "num" /\ v.n % FixedOne = 0
    \/ key = "quantile" /\ v.t = "num"

\* json.Unmarshal(p.Arguments, &a) for the struct of the tool: [a, err].  A
\* field is set when its key is present with an accepted value other than null;
\* keys without a field are ignored; a value of the wrong type leaves its field
\* alone and is reported after the other fields are decoded.
UnmarshalArguments(raw, tool, into) ==
    IF raw.kind = "missing"
    THEN [a |-> into, err |-> Err(<<"unexpected end of JSON input">>)]
    ELSE IF raw.kind = "null" THEN [a |-> into, err |-> Nil]
    ELSE IF raw.kind = "string"
    THEN [a |-> into, err |-> Err(<<"json: cannot unmarshal string">>)]
    ELSE LET known == ArgFields(tool) \cap DOMAIN raw.fields
             GoValue(key, v) == IF key \in {"client", "server"} THEN v.s
                                ELSE IF key = "quantile" THEN v.n
                                ELSE v.n \div FixedOne
         IN  [a |-> [key \in DOMAIN into |->
                        IF /\ key \in known
                           /\ Assignable(key, raw.fields[key])
                           /\ raw.fields[key].t # "null"
                        THEN GoValue(key, raw.fields[key])
                        ELSE into[key]],
              err |-> IF \E key \in known : ~Assignable(key, raw.fields[key])
                      THEN Err(<<"json: cannot unmarshal">>)
                      ELSE Nil]

\* json.Unmarshal(r.Params, &p): [name, arguments, err]
UnmarshalParams(params) ==
    IF params.kind = "missing"
    THEN [name |-> "", arguments |-> Raw("missing", <<>>),
          err |-> Err(<<"unexpected end of JSON input">>)]
    ELSE IF params.kind = "null" THEN [name |-> "", arguments |-> Raw("missing", <<>>), err |-> Nil]
    ELSE IF params.kind = "string"
    THEN [name |-> "", arguments |-> Raw("missing", <<>>),
          err |-> Err(<<"json: cannot unmarshal string">>)]
    ELSE [name |-> IF params.name.t = "str" THEN params.name.s ELSE "",
          arguments |-> params.arguments,
          err |-> IF params.name.t = "num" THEN Err(<<"json: cannot unmarshal">>)
                  ELSE Nil]

DefaultWindowMinutes == 10
DefaultLimit == 5
DefaultQuantile == (95 * FixedOne) \div 100

\* the defaults of a tool's case with a fault: a non-positive limit is kept
ApplyDefaultsKeepLimit(tool, a) ==
    [a EXCEPT
       !.windowMinutes = IF @ <= 0 THEN DefaultWindowMinutes ELSE @,
       !.quantile = IF tool = "spanmetrics_latency_quantile" /\ (@ <= 0 \/ @ >= FixedOne)
                    THEN DefaultQuantile ELSE @]

\* the defaults of a tool's case: windowMinutes for every tool, quantile for
\* spanmetrics_latency_quantile, limit for the two top-N tools
ApplyDefaults(tool, a) ==
    [a EXCEPT
       !.windowMinutes = IF @ <= 0 THEN DefaultWindowMinutes ELSE @,
       !.quantile = IF tool = "spanmetrics_latency_quantile" /\ (@ <= 0 \/ @ >= FixedOne)
                    THEN DefaultQuantile ELSE @,
       !.limit = IF /\ tool \in {"spanmetrics_top_callers", "spanmetrics_top_endpoints"}
                    /\ @ <= 0
                 THEN DefaultLimit ELSE @]

\* the call of the tool's query helper: the range query it sends is built from
\* these values alone
HelperCall(tool, a) ==
    CASE tool = "servicegraph_topology" ->
            [fn |-> "getTopology", client |-> "", server |-> "", quantile |-> 0,
             limit |-> 0, windowM |-> a.windowMinutes]
      [] tool = "servicegraph_latency_p95" ->
            [fn |-> "getLatency", client |-> a.client, server |-> a.server,
             quantile |-> 0, limit |-> 0, windowM |-> a.windowMinutes]
      [] tool = "spanmetrics_latency_quantile" ->
            [fn |-> "getLatencyQuantile", client |-> a.client, server |-> a.server,
             quantile |-> a.quantile, limit |-> 0, windowM |-> a.windowMinutes]
      [] tool = "spanmetrics_rps" ->
            [fn |-> "getRPS", client |-> a.client, server |-> a.server,
             quantile |-> 0, limit |-> 0, windowM |-> a.windowMinutes]
      [] tool = "spanmetrics_top_callers" ->
            [fn |-> "getTopCallers", client |-> "", server |-> a.server,
             quantile |-> 0, limit |-> a.limit, windowM |-> a.windowMinutes]
      [] tool = "spanmetrics_top_endpoints" ->
            [fn |-> "getTopEndpoints", client |-> "", server |-> a.server,
             quantile |-> 0, limit |-> a.limit, windowM |-> a.windowMinutes]

\* resp.Result and resp.Error when unset
NilResult == [type |-> "nil"]
NilError == [isNil |-> TRUE, Code |-> 0, Message |-> <<>>]

\* fail with a fault: the error response carries no id
failWithoutId(id, code, msg) ==
    [ID |-> JNull, JSONRPC |-> "2.0", Result |-> NilResult,
     Error |-> [isNil |-> FALSE, Code |-> code, Message |-> msg]]

ok(id, res) == [ID |-> id, JSONRPC |-> "2.0", Result |-> res, Error |-> NilError]
fail(id, code, msg) ==
    [ID |-> id, JSONRPC |-> "2.0", Result |-> NilResult,
     Error |-> [isNil |-> FALSE, Code |-> code, Message |-> msg]]

\* the keys of the encoded response: result and error have omitempty
EncodedKeys(rsp) ==
    {"id", "jsonrpc"}
    \cup (IF rsp.Result = NilResult THEN {} ELSE {"result"})
    \cup (IF rsp.Error.isNil THEN {} ELSE {"error"})

\* a tool's case of tools/call after its defaults: the check of client and
\* server of the two latency tools, the query, the response
QueryAndRespond(id, tool, a, rep) ==
    IF /\ tool \in {"servicegraph_latency_p95", "spanmetrics_latency_quantile"}
       /\ (a.client = "" \/ a.server = "")
    THEN [resp |-> fail(id, -32602, <<"client and server required">>),
          queries |-> <<>>, a |-> a]
    ELSE LET out == QueryRange(rep)
         IN  [resp |-> IF out.err.isErr THEN fail(id, -32000, out.err.msg)
                       ELSE ok(id, [type |-> "content", text |-> out.data]),
              queries |-> <<HelperCall(tool, a)>>, a |-> a]

\* case "tools/call" of server.handle: [resp, queries, a]; stale is what an
\* earlier call left in its a
CallTool(r, rep, stale) ==
    LET p == UnmarshalParams(r.params)
    IN  IF p.err.isErr
        THEN [resp |-> fail(r.id, -32602, p.err.msg), queries |-> <<>>, a |-> stale]
        ELSE IF ArgFields(p.name) = {}
        THEN [resp |-> fail(r.id, -32601, <<"unknown tool: ", p.name>>),
              queries |-> <<>>, a |-> stale]
        ELSE LET dec == UnmarshalArguments(p.arguments, p.name, DeclareArgs(stale))
             IN  IF dec.err.isErr /\ p.name # "servicegraph_topology"
                 THEN [resp |-> fail(r.id, -32602, dec.err.msg),
                       queries |-> <<>>, a |-> dec.a]
                 ELSE QueryAndRespond(r.id, p.name, ApplyDefaults(p.name, dec.a), rep)

\* server.handle: [resp, queries, a]
handle(r, rep, stale) ==
    CASE r.method = "initialize" ->
            [resp |-> ok(r.id, InitializeResult), queries |-> <<>>, a |-> stale]
      [] r.method = "tools/list" ->
            [resp |-> ok(r.id, ToolsList), queries |-> <<>>, a |-> stale]
      [] r.method = "tools/call" -> CallTool(r, rep, stale)
      [] r.method = "shutdown" ->
            [resp |-> ok(r.id, EmptyObject), queries |-> <<>>, a |-> stale]
      [] OTHER ->
            [resp |-> fail(r.id, -32601, <<"method not found">>),
             queries |-> <<>>, a |-> stale]

(***************************************************************************)
(* State.                                                                  *)
(***************************************************************************)
VARIABLES
    pc,           \* position of the handler (or of detectAnomalies on its own)
    threshold,    \* main's threshold
    metric,       \* "rps" for /anomalies/all, "error_rate" for /anomalies/all_error
    reply,        \* what the backend answered to this request's query
    backendCalls, \* queries the backend has received
    err,          \* the handler's err
    series,       \* the handler's series, allVals, allTs
    allVals,
    allTs,
    i,            \* index of the series loop
    idx,          \* idx and scores returned by detectAnomalies
    scores,
    results,      \* the handler's results
    events,       \* anomaly lines written to the log
    response,     \* the HTTP response written
    cancelled,    \* the request's context is cancelled
    attempt,      \* startup discovery: attempt, services and the lines it logged
    services,
    startupLog,
    vals,         \* detectAnomalies on its own: vals, k, norm and New's locals
    k,
    norm,
    psi,
    maxDepth,
    subsample,
    trees,
    forest,
    mcpReq,       \* the MCP server: the request in, the backend's reply, the struct a,
    mcpReply,     \* the queries sent, the response, the HTTP status, the methods of
    mcpA,         \* the requests answered ("" when handle was not called), and
                  \* whether http.ListenAndServe is serving
    mcpQueries,
    mcpResp,
    mcpStatus,
    mcpAnswered,
    mcpServing

vars == <<pc, threshold, metric, reply, backendCalls, err, series, allVals, allTs,
          i, idx, scores, results, events, response, cancelled,
          attempt, services, startupLog,
          vals, k, norm, psi, maxDepth, subsample, trees, forest,
          mcpReq, mcpReply, mcpA, mcpQueries, mcpResp, mcpStatus, mcpAnswered,
          mcpServing>>

handlerVars == <<threshold, metric, reply, backendCalls, err, series, allVals, allTs,
                 i, results, events, response, cancelled,
                 attempt, services, startupLog>>
detectVars == <<vals, k, norm, psi, maxDepth, subsample, trees, forest>>
mcpVars == <<mcpReq, mcpReply, mcpA, mcpQueries, mcpResp, mcpStatus, mcpAnswered,
            mcpServing>>

NoReply == [kind |-> "none"]
NoResponse == [code |-> 0]
NoForest == [Trees |-> <<>>, C |-> 0]

NoRequest ==
    [id |-> JNull, method |-> "",
     params |-> [kind |-> "missing", name |-> JAbsent, arguments |-> Raw("missing", <<>>)]]
NoRpcResponse == [ID |-> JNull, JSONRPC |-> "", Result |-> NilResult, Error |-> NilError]

\* the MCP server is serving and has received no request
McpIdle ==
    /\ mcpReq = NoRequest
    /\ mcpReply = NoReply
    /\ mcpA = ZeroArgs
    /\ mcpQueries = <<>>
    /\ mcpResp = NoRpcResponse
    /\ mcpStatus = 0
    /\ mcpAnswered = <<>>
    /\ mcpServing = TRUE

\* the line main logs when discovery found services
DetectedLine(svcs) ==
    [text |-> "anomalies will be detected on services", n |-> Len(svcs), names |-> svcs]

\* startup discovery has returned: it found one service at its first attempt
StartedUp ==
    /\ attempt = 1
    /\ services = <<"cart">>
    /\ startupLog = <<DetectedLine(<<"cart">>)>>

(***************************************************************************)
(* The handlers of /anomalies/all and /anomalies/all_error.                *)
(***************************************************************************)
Init ==
    /\ pc = "idle"
    /\ threshold \in Thresholds
    /\ metric = ""
    /\ reply = NoReply
    /\ backendCalls = 0
    /\ err = Nil
    /\ series = <<>> /\ allVals = <<>> /\ allTs = <<>>
    /\ i = 0
    /\ idx = <<>> /\ scores = <<>>
    /\ results = <<>>
    /\ events = <<>>
    /\ response = NoResponse
    /\ cancelled = FALSE
    /\ StartedUp
    /\ vals = <<>> /\ k = 0 /\ norm = <<>> /\ psi = 0 /\ maxDepth = 0
    /\ subsample = <<>> /\ trees = <<>> /\ forest = NoForest
    /\ McpIdle

\* HttpError with a fault: the message is replaced by a fixed text
HttpErrorGeneric(msg, code) == [code |-> code, body |-> <<"internal error", "\n">>]

\* http.Error(w, msg, 500)
HttpError(msg, code) == [code |-> code, body |-> msg \o <<"\n">>]

\* the handler up to the series loop: the fetch, and the error response
HandlerFetch(m, fetched) ==
    /\ metric' = m
    /\ backendCalls' = backendCalls + 1
    /\ err' = fetched.err
    /\ series' = fetched.series
    /\ allVals' = fetched.allVals
    /\ allTs' = fetched.allTs
    /\ IF fetched.err.isErr
       THEN /\ response' = HttpError(fetched.err.msg, 500)
            /\ pc' = "done"
       ELSE /\ response' = response
            /\ pc' = "loop"
    /\ UNCHANGED <<threshold, i, idx, scores, results, events, cancelled>>
    /\ UNCHANGED <<attempt, services, startupLog>>
    /\ UNCHANGED detectVars
    /\ UNCHANGED mcpVars

GetAnomaliesAll ==
    /\ pc = "idle"
    /\ \E r \in Replies : reply' = r /\ HandlerFetch("rps", fetchAllRPS(r))

GetAnomaliesAllError ==
    /\ pc = "idle"
    /\ \E r \in Replies : reply' = r /\ HandlerFetch("error_rate", fetchAllErrorRate(r))

\* svc := s.Metric["service_name"]; if svc == "" { svc = "unknown" }
ServiceOf(s) ==
    IF Lookup(s.metric, "service_name") = "" THEN "unknown"
    ELSE Lookup(s.metric, "service_name")

\* the labels kept in a result entry
LabelsOf(s) ==
    [service_name |-> Lookup(s.metric, "service_name"),
     span_name |-> Lookup(s.metric, "span_name"),
     peer_service |-> Lookup(s.metric, "peer_service")]

\* TopEntries with a fault: the position in idx is used as the index of the point
TopEntriesByPosition(topIdx, ts, vs, sc) ==
    [p \in 1 .. Len(topIdx) |->
        [time |-> FormatRFC3339(At(ts, p - 1)),
         value |-> At(vs, p - 1),
         score |-> At(sc, p - 1)]]

\* the top entries of a result: one per returned index j
TopEntries(topIdx, ts, vs, sc) ==
    [p \in 1 .. Len(topIdx) |->
        [time |-> FormatRFC3339(At(ts, topIdx[p])),
         value |-> At(vs, topIdx[p]),
         score |-> At(sc, topIdx[p])]]

ResultEntry(s, vs, top) == [labels |-> LabelsOf(s), points |-> Len(vs), top |-> top]

\* SkipSeries with a fault: a series is also skipped when its service is not
\* one of those startup discovery listed
SkipSeriesUndiscovered ==
    /\ pc = "loop"
    /\ i < Len(series)
    /\ \/ Len(At(allVals, i)) = 0
       \/ \A j \in 1 .. Len(services) : services[j] # ServiceOf(At(series, i))
    /\ i' = i + 1
    /\ UNCHANGED <<pc, threshold, metric, reply, backendCalls, err, series, allVals,
                   allTs, idx, scores, results, events, response, cancelled>>
    /\ UNCHANGED <<attempt, services, startupLog>>
    /\ UNCHANGED detectVars
    /\ UNCHANGED mcpVars

\* one iteration of the series loop that skips a series without points
SkipSeries ==
    /\ pc = "loop"
    /\ i < Len(series)
    /\ Len(At(allVals, i)) = 0
    /\ i' = i + 1
    /\ UNCHANGED <<pc, threshold, metric, reply, backendCalls, err, series, allVals,
                   allTs, idx, scores, results, events, response, cancelled>>
    /\ UNCHANGED <<attempt, services, startupLog>>
    /\ UNCHANGED detectVars
    /\ UNCHANGED mcpVars

\* one iteration of the series loop: detection, events, the result entry
DetectSeries ==
    /\ pc = "loop"
    /\ i < Len(series)
    /\ Len(At(allVals, i)) # 0
    /\ \E out \in detectAnomalies(At(allVals, i), TopK) :
          /\ idx' = out.idx
          /\ scores' = out.scores
          /\ events' = events \o logAnomalyEvents(ServiceOf(At(series, i)), metric,
                                                  out.idx, out.scores, threshold)
          /\ results' = Append(results,
                               ResultEntry(At(series, i), At(allVals, i),
                                           TopEntries(out.idx, At(allTs, i),
                                                      At(allVals, i), out.scores)))
    /\ i' = i + 1
    /\ UNCHANGED <<pc, threshold, metric, reply, backendCalls, err, series, allVals,
                   allTs, response, cancelled>>
    /\ UNCHANGED <<attempt, services, startupLog>>
    /\ UNCHANGED detectVars
    /\ UNCHANGED mcpVars

\* Payload with a fault: the series count is that of the fetched series
PayloadCountsFetched(res, m) ==
    [windowMinutes |-> Window, series |-> Len(series), results |-> res, metric |-> m]

\* the JSON payload of the response
Payload(res, m) ==
    [windowMinutes |-> Window, series |-> Len(res), results |-> res, metric |-> m]

Respond ==
    /\ pc = "loop"
    /\ i = Len(series)
    /\ response' = [code |-> 200, body |-> Payload(results, metric)]
    /\ pc' = "done"
    /\ UNCHANGED <<threshold, metric, reply, backendCalls, err, series, allVals, allTs,
                   i, idx, scores, results, events, cancelled>>
    /\ UNCHANGED <<attempt, services, startupLog>>
    /\ UNCHANGED detectVars
    /\ UNCHANGED mcpVars

Next ==
    \/ GetAnomaliesAll
    \/ GetAnomaliesAllError
    \/ SkipSeries
    \/ DetectSeries
    \/ Respond

Spec == Init /\ [][Next]_vars

(***************************************************************************)
(* The handlers with a client that may go away: the request's context is   *)
(* cancelled while the handler is in its series loop.  The loop of lines   *)
(* 376-409 reads no ctx.Done() and no ctx.Err(); detectAnomalies and       *)
(* logAnomalyEvents take no context.                                       *)
(***************************************************************************)
InitCancel == Init /\ threshold = (6 * FixedOne) \div 10

\* r.Context() is cancelled after the fetch has returned
Cancel ==
    /\ pc = "loop"
    /\ ~cancelled
    /\ cancelled' = TRUE
    /\ UNCHANGED <<pc, threshold, metric, reply, backendCalls, err, series, allVals,
                   allTs, i, idx, scores, results, events, response>>
    /\ UNCHANGED <<attempt, services, startupLog>>
    /\ UNCHANGED detectVars
    /\ UNCHANGED mcpVars

NextCancel ==
    \/ GetAnomaliesAll
    \/ GetAnomaliesAllError
    \/ SkipSeries
    \/ DetectSeries
    \/ Respond
    \/ Cancel

SpecCancel == InitCancel /\ [][NextCancel]_vars

(***************************************************************************)
(* detectAnomalies on its own, step by step: the series and k are inputs.  *)
(***************************************************************************)
\* the sanitized values of an input series
DetectValues == {FNum(0), FNum(FixedOne), FNum(4 * FixedOne)}

DetectInputs == UNION { [1 .. n -> DetectValues] : n \in 0 .. MaxPoints }

InitDetect ==
    /\ pc = "detect"
    /\ vals \in DetectInputs
    /\ k \in 0 .. MaxK
    /\ threshold = (6 * FixedOne) \div 10
    /\ metric = ""
    /\ reply = NoReply
    /\ backendCalls = 0
    /\ err = Nil
    /\ series = <<>> /\ allVals = <<>> /\ allTs = <<>>
    /\ i = 0
    /\ idx = <<>> /\ scores = <<>>
    /\ results = <<>>
    /\ events = <<>>
    /\ response = NoResponse
    /\ cancelled = FALSE
    /\ StartedUp
    /\ norm = <<>> /\ psi = 0 /\ maxDepth = 0
    /\ subsample = <<>> /\ trees = <<>> /\ forest = NoForest
    /\ McpIdle

\* lines 280-284: the z-score normalisation
DNormalize ==
    /\ pc = "detect"
    /\ norm' = FiniteValues(Normalize(vals))
    /\ pc' = "new"
    /\ UNCHANGED <<vals, k, psi, maxDepth, subsample, trees, forest, idx, scores>>
    /\ UNCHANGED handlerVars
    /\ UNCHANGED mcpVars

\* DNewBegin with a fault: a full set of trees left by an earlier call is kept
DNewBeginKeepsTrees ==
    /\ pc = "new"
    /\ psi' = ClampPsi(norm, min(SubsampleCap, Len(norm)))
    /\ maxDepth' \in MaxDepths(psi')
    /\ subsample' = [j \in 1 .. psi' |-> 0]
    /\ trees' = (IF Len(trees) = NumTrees THEN trees ELSE <<>>)
    /\ pc' = "trees"
    /\ UNCHANGED <<vals, k, norm, forest, idx, scores>>
    /\ UNCHANGED handlerVars
    /\ UNCHANGED mcpVars

\* New, before its loop: psi, maxDepth, the buffers
DNewBegin ==
    /\ pc = "new"
    /\ psi' = ClampPsi(norm, min(SubsampleCap, Len(norm)))
    /\ maxDepth' \in MaxDepths(psi')
    /\ subsample' = [j \in 1 .. psi' |-> 0]
    /\ trees' = <<>>
    /\ pc' = "trees"
    /\ UNCHANGED <<vals, k, norm, forest, idx, scores>>
    /\ UNCHANGED handlerVars
    /\ UNCHANGED mcpVars

\* one iteration of New's loop: the subsample is drawn and a tree is fitted.
\* rand.Intn(len(data)) panics when data is empty and a sample is to be drawn.
DNewTree ==
    /\ pc = "trees"
    /\ Len(trees) < NumTrees
    /\ IF psi > 0 /\ Len(norm) = 0
       THEN pc' = "panic" /\ UNCHANGED <<subsample, trees>>
       ELSE /\ pc' = pc
            /\ \E sub \in Subsamples(norm, psi) :
                  /\ subsample' = sub
                  /\ \E t \in fitTree(sub, 0, maxDepth) : trees' = Append(trees, t)
    /\ UNCHANGED <<vals, k, norm, psi, maxDepth, forest, idx, scores>>
    /\ UNCHANGED handlerVars
    /\ UNCHANGED mcpVars

\* return &Forest{Trees: trees, C: averagePathLength(psi)}
DNewReturn ==
    /\ pc = "trees"
    /\ Len(trees) = NumTrees
    /\ forest' = [Trees |-> trees, C |-> averagePathLength(psi)]
    /\ pc' = "score"
    /\ UNCHANGED <<vals, k, norm, psi, maxDepth, subsample, trees, idx, scores>>
    /\ UNCHANGED handlerVars
    /\ UNCHANGED mcpVars

\* lines 286-289: every point of norm is scored
DScore ==
    /\ pc = "score"
    /\ scores' = ScoreAll(forest, norm)
    /\ pc' = "sort"
    /\ UNCHANGED <<vals, k, norm, psi, maxDepth, subsample, trees, forest, idx>>
    /\ UNCHANGED handlerVars
    /\ UNCHANGED mcpVars

\* lines 290-298: the sort and the cut to k
DSort ==
    /\ pc = "sort"
    /\ \E order \in SortOrders(scores) : idx' = TopOf(order, k)
    /\ pc' = "returned"
    /\ UNCHANGED <<vals, k, norm, psi, maxDepth, subsample, trees, forest, scores>>
    /\ UNCHANGED handlerVars
    /\ UNCHANGED mcpVars

NextDetect ==
    \/ DNormalize
    \/ DNewBegin
    \/ DNewTree
    \/ DNewReturn
    \/ DScore
    \/ DSort

SpecDetect == InitDetect /\ [][NextDetect]_vars

(***************************************************************************)
(* detectAnomalies, step by step, on series that hold the largest finite   *)
(* float64: values the sanitizer lets through, and whose sum overflows.    *)
(***************************************************************************)
WideValues == {FNum(FixedOne), FNum(MaxFloat), FNum(-MaxFloat)}

WideInputs == UNION { [1 .. n -> WideValues] : n \in 1 .. MaxPoints }

InitWide ==
    /\ pc = "detect"
    /\ vals \in WideInputs
    /\ k = TopK
    /\ threshold = (6 * FixedOne) \div 10
    /\ metric = ""
    /\ reply = NoReply
    /\ backendCalls = 0
    /\ err = Nil
    /\ series = <<>> /\ allVals = <<>> /\ allTs = <<>>
    /\ i = 0
    /\ idx = <<>> /\ scores = <<>>
    /\ results = <<>>
    /\ events = <<>>
    /\ response = NoResponse
    /\ cancelled = FALSE
    /\ StartedUp
    /\ norm = <<>> /\ psi = 0 /\ maxDepth = 0
    /\ subsample = <<>> /\ trees = <<>> /\ forest = NoForest
    /\ McpIdle

SpecWide == InitWide /\ [][NextDetect]_vars

(***************************************************************************)
(* detectAnomalies called for one series after another, as the series loop *)
(* of a handler and the requests that follow each other call it.  i counts *)
(* the calls made.  The locals of a call that returned are left as they    *)
(* were: a later call starts with them in memory, and uses them only if    *)
(* one of its steps reads them before assigning them.                      *)
(***************************************************************************)
\* calls of detectAnomalies in a row
MaxCalls == 2

\* the sanitized values of the series
SeqValues == {FNum(0), FNum(FixedOne), FNum(4 * FixedOne)}

\* longest series of the calls in a row
MaxSeqPoints == 2

\* the handlers skip an empty series: every call gets at least one value
SeqInputs == UNION { [1 .. n -> SeqValues] : n \in 1 .. MaxSeqPoints }

InitSeq == InitDetect /\ vals \in SeqInputs /\ k = TopK

\* detectAnomalies has returned and is called for the next series
DCallNext ==
    /\ pc = "returned"
    /\ i + 1 < MaxCalls
    /\ i' = i + 1
    /\ vals' \in SeqInputs
    /\ pc' = "detect"
    /\ UNCHANGED <<threshold, metric, reply, backendCalls, err, series, allVals, allTs,
                   results, events, response, cancelled>>
    /\ UNCHANGED <<attempt, services, startupLog>>
    /\ UNCHANGED <<k, norm, psi, maxDepth, subsample, trees, forest, idx, scores>>
    /\ UNCHANGED mcpVars

NextSeq ==
    \/ DNormalize
    \/ DNewBegin
    \/ DNewTree
    \/ DNewReturn
    \/ DScore
    \/ DSort
    \/ DCallNext

SpecSeq == InitSeq /\ [][NextSeq]_vars

(***************************************************************************)
(* logAnomalyEvents on its own: the index list, the scores and the         *)
(* threshold are inputs.                                                   *)
(***************************************************************************)
\* scores 0.3, 0.6, 0.7 and 0.9
LogScores ==
    { (3 * FixedOne) \div 10, (6 * FixedOne) \div 10, (7 * FixedOne) \div 10,
      (9 * FixedOne) \div 10 }

LogScoreVectors == UNION { [1 .. n -> LogScores] : n \in 0 .. MaxPoints }

\* index lists, some of their indices outside the score vector
LogIndexLists == UNION { [1 .. n -> -1 .. MaxPoints] : n \in 0 .. MaxPoints }

InitLog ==
    /\ pc = "log"
    /\ idx \in LogIndexLists
    /\ scores \in LogScoreVectors
    /\ threshold \in Thresholds
    /\ metric \in {"rps", "error_rate"}
    /\ series \in { <<[metric |-> m, values |-> <<>>]>> : m \in LabelSets }
    /\ reply = NoReply
    /\ backendCalls = 0
    /\ err = Nil
    /\ allVals = <<>> /\ allTs = <<>>
    /\ i = 0
    /\ results = <<>>
    /\ events = <<>>
    /\ response = NoResponse
    /\ cancelled = FALSE
    /\ StartedUp
    /\ vals = <<>> /\ k = 0 /\ norm = <<>> /\ psi = 0 /\ maxDepth = 0
    /\ subsample = <<>> /\ trees = <<>> /\ forest = NoForest
    /\ McpIdle

\* LogCall with a fault: the indices that were reported are taken off the list
LogCallDropsReported ==
    /\ pc = "log"
    /\ events' = events \o logAnomalyEvents(ServiceOf(At(series, 0)), metric,
                                            idx, scores, threshold)
    /\ idx' = SelectSeq(idx, LAMBDA j : ~(j >= 0 /\ j < Len(scores)
                                             /\ At(scores, j) >= threshold))
    /\ pc' = "logged"
    /\ UNCHANGED <<threshold, metric, reply, backendCalls, err, series, allVals, allTs,
                   i, scores, results, response, cancelled>>
    /\ UNCHANGED <<attempt, services, startupLog>>
    /\ UNCHANGED detectVars
    /\ UNCHANGED mcpVars

LogCall ==
    /\ pc = "log"
    /\ events' = events \o logAnomalyEvents(ServiceOf(At(series, 0)), metric,
                                            idx, scores, threshold)
    /\ pc' = "logged"
    /\ UNCHANGED <<threshold, metric, reply, backendCalls, err, series, allVals, allTs,
                   i, idx, scores, results, response, cancelled>>
    /\ UNCHANGED <<attempt, services, startupLog>>
    /\ UNCHANGED detectVars
    /\ UNCHANGED mcpVars

NextLog == LogCall

SpecLog == InitLog /\ [][NextLog]_vars

(***************************************************************************)
(* The normalisation of detectAnomalies on its own: the series is the      *)
(* input, the largest finite float64 among its values.                     *)
(***************************************************************************)
NormValues ==
    {FNum(0), FNum(FixedOne), FNum(4 * FixedOne), FNum(MaxFloat), FNum(-MaxFloat)}

NormInputs == UNION { [1 .. n -> NormValues] : n \in 0 .. MaxPoints }

InitNorm ==
    /\ pc = "norm"
    /\ vals \in NormInputs
    /\ k = 0
    /\ threshold = (6 * FixedOne) \div 10
    /\ metric = ""
    /\ reply = NoReply
    /\ backendCalls = 0
    /\ err = Nil
    /\ series = <<>> /\ allVals = <<>> /\ allTs = <<>>
    /\ i = 0
    /\ idx = <<>> /\ scores = <<>>
    /\ results = <<>>
    /\ events = <<>>
    /\ response = NoResponse
    /\ cancelled = FALSE
    /\ StartedUp
    /\ norm = <<>> /\ psi = 0 /\ maxDepth = 0
    /\ subsample = <<>> /\ trees = <<>> /\ forest = NoForest
    /\ McpIdle

\* lines 280-284: norm is a new slice, vals is only read
NormCall ==
    /\ pc = "norm"
    /\ norm' = Normalize(vals)
    /\ pc' = "normed"
    /\ UNCHANGED <<vals, k, psi, maxDepth, subsample, trees, forest, idx, scores>>
    /\ UNCHANGED handlerVars
    /\ UNCHANGED mcpVars

NextNorm == NormCall

SpecNorm == InitNorm /\ [][NextNorm]_vars

(***************************************************************************)
(* Startup discovery: main asks the backend for the services up to         *)
(* MaxAttempts times, before it registers the handlers.                     *)
(***************************************************************************)
\* for attempt := 1; attempt <= 30; attempt++
MaxAttempts == 30

\* label sets /api/v1/series returns
\* for a series: two services, an empty service name, no service name
SeriesLabels ==
    { [service_name |-> "web", span_name |-> "GET /"],
      [service_name |-> "cart"],
      [service_name |-> ""],
      [span_name |-> "GET /"] }

\* label sets in one reply, at most
MaxLabelSets == 2

LabelLists == UNION { [1 .. n -> SeriesLabels] : n \in 0 .. MaxLabelSets }

\* the "data" field of a reply of /api/v1/series: the array of label sets, an
\* object that wraps the array in a field "data", or JSON of another type
SeriesData ==
    { [type |-> "array", items |-> l] : l \in LabelLists }
    \cup { [type |-> "object", fields |-> [status |-> "success", data |-> l]] :
             l \in LabelLists }
    \cup { [type |-> "object", fields |-> [status |-> "success"]],
           [type |-> "string"] }

\* what the backend answers to one attempt; the attempt's context times out
\* after 5 seconds
SeriesReplies ==
    { [kind |-> "transport", err |-> <<"connection refused">>],
      [kind |-> "transport", err |-> <<"context deadline exceeded">>],
      [kind |-> "http", code |-> 503, body |-> [valid |-> FALSE]],
      [kind |-> "http", code |-> 200, body |-> [valid |-> FALSE]],
      [kind |-> "http", code |-> 200,
       body |-> [valid |-> TRUE, obj |-> [status |-> "success"]]],
      [kind |-> "http", code |-> 200,
       body |-> [valid |-> TRUE, obj |-> [status |-> "error"]]],
      [kind |-> "http", code |-> 200,
       body |-> [valid |-> TRUE, obj |-> [status |-> "error", error |-> <<"bad_data">>]]] }
    \cup { [kind |-> "http", code |-> 200,
            body |-> [valid |-> TRUE, obj |-> [status |-> "success", data |-> d]]] :
              d \in SeriesData }

\* Client.Series on the backend's reply: [data, err]
Series(rep) ==
    IF rep.kind = "transport" THEN [data |-> NoRaw, err |-> Err(rep.err)]
    ELSE IF rep.code \div 100 # 2
    THEN [data |-> NoRaw,
          err |-> Err(<<"mimir series failed: ", StatusText(rep.code)>>)]
    ELSE IF ~rep.body.valid
    THEN [data |-> NoRaw, err |-> Err(<<"invalid character">>)]
    ELSE LET obj == rep.body.obj
             status == Lookup(obj, "status")
             error == IF "error" \in DOMAIN obj THEN obj.error ELSE <<>>
         IN  IF status # "success"
             THEN IF error # <<>>
                  THEN [data |-> NoRaw, err |-> Err(Errorf(error))]
                  ELSE [data |-> NoRaw, err |-> Err(<<"series failed">>)]
             ELSE [data |-> IF "data" \in DOMAIN obj
                            THEN [present |-> TRUE, json |-> obj.data]
                            ELSE NoRaw,
                   err |-> Nil]

\* payload.Data after the two json.Unmarshal calls: the array itself, else the
\* field "data" of the object, else nothing
PayloadData(raw) ==
    IF ~raw.present THEN <<>>
    ELSE IF raw.json.type = "array" THEN raw.json.items
    ELSE IF raw.json.type = "object" /\ "data" \in DOMAIN raw.json.fields
    THEN raw.json.fields.data
    ELSE <<>>

\* the service names of the model in the order of sort.Strings
NameOrder == <<"cart", "web">>

\* sort.Strings of the keys of seen
SortStrings(seen) == SelectSeq(NameOrder, LAMBDA name : name \in seen)

\* fetchServices: [services, err]
fetchServices(rep) ==
    LET sr == Series(rep)
    IN  IF sr.err.isErr THEN [services |-> <<>>, err |-> sr.err]
        ELSE LET data == PayloadData(sr.data)
                 seen == { Lookup(data[j], "service_name") : j \in 1 .. Len(data) } \ {""}
             IN  [services |-> SortStrings(seen), err |-> Nil]

WaitingLine(a, e) ==
    [text |-> "anomaly detection startup: waiting for metrics", attempt |-> a, err |-> e]

CouldNotListLine(e) ==
    [text |-> "anomaly detection startup: could not list services yet", err |-> e]

InitStartup ==
    /\ pc = "startup"
    /\ attempt = 1
    /\ services = <<>>
    /\ startupLog = <<>>
    /\ threshold \in Thresholds
    /\ metric = ""
    /\ reply = NoReply
    /\ backendCalls = 0
    /\ err = Nil
    /\ series = <<>> /\ allVals = <<>> /\ allTs = <<>>
    /\ i = 0
    /\ idx = <<>> /\ scores = <<>>
    /\ results = <<>>
    /\ events = <<>>
    /\ response = NoResponse
    /\ cancelled = FALSE
    /\ vals = <<>> /\ k = 0 /\ norm = <<>> /\ psi = 0 /\ maxDepth = 0
    /\ subsample = <<>> /\ trees = <<>> /\ forest = NoForest
    /\ McpIdle

\* StartupAttempt with a fault: the loop goes on after an attempt that found
\* services
StartupAttemptNoBreak ==
    /\ pc = "startup"
    /\ attempt <= MaxAttempts
    /\ \E r \in SeriesReplies :
          LET fetched == fetchServices(r)
          IN  /\ reply' = r
              /\ backendCalls' = backendCalls + 1
              /\ services' = fetched.services
              /\ err' = fetched.err
              /\ attempt' = attempt + 1
              /\ startupLog' =
                    (IF attempt = 1 /\ (fetched.err.isErr \/ Len(fetched.services) = 0)
                     THEN Append(startupLog, WaitingLine(attempt, fetched.err))
                     ELSE startupLog)
              /\ pc' = pc
    /\ UNCHANGED <<threshold, metric, series, allVals, allTs, i, idx, scores, results,
                   events, response, cancelled>>
    /\ UNCHANGED detectVars
    /\ UNCHANGED mcpVars

\* one iteration of the loop: the attempt, the break when it found services,
\* else the line of the first attempt, the sleep and attempt++
StartupAttempt ==
    /\ pc = "startup"
    /\ attempt <= MaxAttempts
    /\ \E r \in SeriesReplies :
          LET fetched == fetchServices(r)
          IN  /\ reply' = r
              /\ backendCalls' = backendCalls + 1
              /\ services' = fetched.services
              /\ err' = fetched.err
              /\ IF ~fetched.err.isErr /\ Len(fetched.services) > 0
                 THEN /\ pc' = "report"
                      /\ UNCHANGED <<attempt, startupLog>>
                 ELSE /\ startupLog' =
                            (IF attempt = 1
                             THEN Append(startupLog, WaitingLine(attempt, fetched.err))
                             ELSE startupLog)
                      /\ attempt' = attempt + 1
                      /\ pc' = pc
    /\ UNCHANGED <<threshold, metric, series, allVals, allTs, i, idx, scores, results,
                   events, response, cancelled>>
    /\ UNCHANGED detectVars
    /\ UNCHANGED mcpVars

\* after the loop: the line that services could not be listed, or the line
\* that names the services
StartupReport ==
    /\ pc = "report" \/ (pc = "startup" /\ attempt > MaxAttempts)
    /\ startupLog' =
          (IF err.isErr \/ Len(services) = 0
           THEN Append(startupLog, CouldNotListLine(err))
           ELSE Append(startupLog, DetectedLine(services)))
    /\ pc' = "serving"
    /\ UNCHANGED <<threshold, metric, reply, backendCalls, err, series, allVals, allTs,
                   i, idx, scores, results, events, response, cancelled>>
    /\ UNCHANGED <<attempt, services>>
    /\ UNCHANGED detectVars
    /\ UNCHANGED mcpVars

NextStartup ==
    \/ StartupAttempt
    \/ StartupReport

SpecStartup == InitStartup /\ [][NextStartup]_vars

(***************************************************************************)
(* main from its first line to a served request: startup discovery, then   *)
(* the registration of the handlers and http.ListenAndServe, then one      *)
(* request to /anomalies/all or /anomalies/all_error.  main is sequential; *)
(* every attempt ends (its context times out after 5 seconds) and so does  *)
(* every sleep, hence the weak fairness of the startup steps.              *)
(***************************************************************************)
ListeningLine == [text |-> "isolation-forest service listening on"]

\* log.Printf("... listening on %s", addr); http.ListenAndServe(addr, nil)
ListenAndServe ==
    /\ pc = "serving"
    /\ startupLog' = Append(startupLog, ListeningLine)
    /\ pc' = "idle"
    /\ UNCHANGED <<threshold, metric, reply, backendCalls, err, series, allVals, allTs,
                   i, idx, scores, results, events, response, cancelled>>
    /\ UNCHANGED <<attempt, services>>
    /\ UNCHANGED detectVars
    /\ UNCHANGED mcpVars

\* the batches served after startup: a series without points followed by a
\* constant series of two points, both of service cart, and a series of one
\* point without service name
ServedBatches ==
    { << [metric |-> [service_name |-> "cart", span_name |-> "GET /",
                      peer_service |-> "web"],
          values |-> <<>>],
         [metric |-> [service_name |-> "cart", span_name |-> "GET /",
                      peer_service |-> "web"],
          values |-> <<RawPair(1, "4"), RawPair(2, "4")>>] >>,
      << [metric |-> [span_name |-> "GET /"], values |-> <<RawPair(1, "1")>>] >> }

\* what the backend answers to the request served after startup: an error, or
\* a batch in the form the handlers read (see C5)
ServedReplies ==
    { [kind |-> "transport", err |-> <<"connection refused">>] }
    \cup { [kind |-> "http", code |-> 200,
            body |-> [valid |-> TRUE, obj |-> [status |-> "success", data |-> Wrapped(b)]]] :
              b \in ServedBatches }

ServedAnomaliesAll ==
    /\ pc = "idle"
    /\ \E r \in ServedReplies : reply' = r /\ HandlerFetch("rps", fetchAllRPS(r))

ServedAnomaliesAllError ==
    /\ pc = "idle"
    /\ \E r \in ServedReplies :
          reply' = r /\ HandlerFetch("error_rate", fetchAllErrorRate(r))

NextServe ==
    \/ StartupAttempt
    \/ StartupReport
    \/ ListenAndServe
    \/ ServedAnomaliesAll
    \/ ServedAnomaliesAllError
    \/ SkipSeries
    \/ DetectSeries
    \/ Respond

SpecServe ==
    /\ InitStartup
    /\ [][NextServe]_vars
    /\ WF_vars(StartupAttempt)
    /\ WF_vars(StartupReport)
    /\ WF_vars(ListenAndServe)

(***************************************************************************)
(* The MCP server: the /rpc handler of main around server.handle.  The     *)
(* struct a of the tool's case is kept between requests as the memory an   *)
(* earlier call left behind; the code declares it anew in every call.      *)
(***************************************************************************)
\* r.ID as decoded into any: nil, a number, a string
McpIds == {JNull, JNum(7 * FixedOne)}

\* the values a request gives to an argument, JAbsent when it leaves it out
ArgChoices ==
    [client : {JAbsent, JStr(""), JStr("web")},
     server : {JAbsent, JStr(""), JStr("cart")},
     windowMinutes : {JAbsent, JNum(0), JNum(-5 * FixedOne), JNum(30 * FixedOne),
                      JNum(FixedOne \div 2)},
     limit : {JAbsent, JNum(0), JNum(3 * FixedOne)},
     quantile : {JAbsent, JNum(0), JNum(FixedOne \div 2), JNum(FixedOne)}]

\* the JSON object of the arguments a request gives
ArgObject(c) ==
    Raw("object", [key \in {x \in DOMAIN c : c[x].t # "absent"} |-> c[key]])

NoParams == [kind |-> "missing", name |-> JAbsent, arguments |-> Raw("missing", <<>>)]

OtherMethods == {"initialize", "tools/list", "shutdown", "resources/list"}

\* the requests of one call of server.handle: a tools/call whose params are
\* missing, null, a string, or an object with a name (a tool, no tool, left
\* out, a number) and arguments (missing, null, a string, an object), and the
\* other methods
McpRequests ==
    LET names == { JStr(ToolNames[j]) : j \in 1 .. Len(ToolNames) }
                 \cup {JStr("nope"), JAbsent, JNum(FixedOne)}
        arguments == {Raw("missing", <<>>), Raw("null", <<>>), Raw("string", <<>>)}
                     \cup { ArgObject(c) : c \in ArgChoices }
        params == { NoParams, [NoParams EXCEPT !.kind = "null"],
                    [NoParams EXCEPT !.kind = "string"] }
                  \cup [kind : {"object"}, name : names, arguments : arguments]
    IN  [id : McpIds, method : {"tools/call"}, params : params]
        \cup [id : McpIds, method : OtherMethods, params : {NoParams}]

\* what the backend answers to the range query of a tool
McpReplies ==
    { [kind |-> "transport", err |-> <<"connection refused">>],
      [kind |-> "http", code |-> 200,
       body |-> [valid |-> TRUE, obj |-> [status |-> "error", error |-> <<"bad_data">>]]],
      [kind |-> "http", code |-> 200,
       body |-> [valid |-> TRUE,
                 obj |-> [status |-> "success", data |-> Matrix(<<>>)]]] }

InitMcp ==
    /\ pc = "mcp"
    /\ threshold = FixedOne
    /\ metric = ""
    /\ reply = NoReply
    /\ backendCalls = 0
    /\ err = Nil
    /\ series = <<>> /\ allVals = <<>> /\ allTs = <<>>
    /\ i = 0
    /\ idx = <<>> /\ scores = <<>>
    /\ results = <<>>
    /\ events = <<>>
    /\ response = NoResponse
    /\ cancelled = FALSE
    /\ StartedUp
    /\ vals = <<>> /\ k = 0 /\ norm = <<>> /\ psi = 0 /\ maxDepth = 0
    /\ subsample = <<>> /\ trees = <<>> /\ forest = NoForest
    /\ McpIdle

\* the /rpc handler for a POST whose body decodes into req: in is handled and
\* the response encoded
RpcHandle(requests) ==
    /\ pc = "mcp"
    /\ mcpServing
    /\ \E r \in requests, rep \in McpReplies :
          LET h == handle(r, rep, mcpA)
          IN  /\ mcpReq' = r
              /\ mcpReply' = (IF h.queries = <<>> THEN NoReply ELSE rep)
              /\ mcpResp' = h.resp
              /\ mcpQueries' = mcpQueries \o h.queries
              /\ mcpA' = h.a
              /\ mcpAnswered' = Append(mcpAnswered, r.method)
    /\ mcpStatus' = 200
    /\ UNCHANGED mcpServing
    /\ UNCHANGED <<pc, idx, scores>>
    /\ UNCHANGED handlerVars
    /\ UNCHANGED detectVars

\* one call of server.handle on any request
RpcAny ==
    /\ mcpAnswered = <<>>
    /\ RpcHandle(McpRequests)

SpecMcp == InitMcp /\ [][RpcAny]_vars

\* requests the server receives one after another
MaxRequests == 3

CallOf(id, tool, c) ==
    [id |-> id, method |-> "tools/call",
     params |-> [kind |-> "object", name |-> JStr(tool), arguments |-> ArgObject(c)]]

NoArgs ==
    [client |-> JAbsent, server |-> JAbsent, windowMinutes |-> JAbsent,
     limit |-> JAbsent, quantile |-> JAbsent]

\* the requests of a session: the four methods and one unknown, and calls of
\* tools with all, some and none of their arguments
SessionRequests ==
    [id : {JNum(7 * FixedOne)}, method : OtherMethods, params : {NoParams}]
    \cup { CallOf(JNum(7 * FixedOne), "spanmetrics_rps", c) :
             c \in {NoArgs, [NoArgs EXCEPT !.server = JStr("cart")],
                    [NoArgs EXCEPT !.server = JStr("cart"), !.client = JStr("web"),
                                   !.windowMinutes = JNum(30 * FixedOne)]} }
    \cup { CallOf(JNum(7 * FixedOne), "spanmetrics_top_callers", c) :
             c \in {[NoArgs EXCEPT !.server = JStr("cart")],
                    [NoArgs EXCEPT !.server = JStr("cart"),
                                   !.limit = JNum(3 * FixedOne)]} }
    \cup { CallOf(JNum(7 * FixedOne), "spanmetrics_latency_quantile", c) :
             c \in {[NoArgs EXCEPT !.server = JStr("cart")],
                    [NoArgs EXCEPT !.server = JStr("cart"), !.client = JStr("web"),
                                   !.quantile = JNum(FixedOne \div 2)]} }

\* the /rpc handler on a POST
RpcPost ==
    /\ Len(mcpAnswered) < MaxRequests
    /\ RpcHandle(SessionRequests)

\* the /rpc handler on a request that is not a POST (405), or whose body does
\* not decode into req (400): server.handle is not called
RpcReject ==
    /\ pc = "mcp"
    /\ mcpServing
    /\ Len(mcpAnswered) < MaxRequests
    /\ \E code \in {405, 400} : mcpStatus' = code
    /\ mcpReq' = NoRequest
    /\ mcpReply' = NoReply
    /\ mcpResp' = NoRpcResponse
    /\ mcpAnswered' = Append(mcpAnswered, "")
    /\ UNCHANGED <<mcpA, mcpQueries, mcpServing>>
    /\ UNCHANGED <<pc, idx, scores>>
    /\ UNCHANGED handlerVars
    /\ UNCHANGED detectVars

NextSession ==
    \/ RpcPost
    \/ RpcReject

SpecSession == InitMcp /\ [][NextSession]_vars

(***************************************************************************)
(* Properties.                                                             *)
(***************************************************************************)
\* values scored besides the points of the series
ProbeValues == {-3 * FixedOne, 0, 3 * FixedOne}

ScoredValues == Range(norm) \cup ProbeValues

\* the raw pairs of arity 2, in raw order
WellFormedPairs(values) == SelectSeq(values, LAMBDA v : Len(v) = 2)

\* C1: for every series and every k >= 0, detectAnomalies returns, without
\* crashing, exactly min(k, |S|) indices, each in 0 .. |S|-1 and pairwise
\* distinct; k = 0, k > |S| and the empty series included.
C1_ReturnsMinKDistinctIndices ==
    /\ pc = "returned" =>
          /\ Len(idx) = min(k, Len(vals))
          /\ \A p \in 1 .. Len(idx) : idx[p] >= 0 /\ idx[p] < Len(vals)
          /\ \A p, q \in 1 .. Len(idx) : p # q => idx[p] # idx[q]
    /\ pc # "panic"
    /\ pc = "trees" /\ Len(trees) < NumTrees =>
          \A sub \in Subsamples(norm, psi) : fitTree(sub, 0, maxDepth) # {}
    /\ pc = "sort" => SortOrders(scores) # {}

C1_Witness ==
    /\ pc = "returned"
    /\ Len(vals) = 3
    /\ k = 2
    /\ Len(idx) = 2

\* C2: the returned indices are ranked by descending score: consecutive returned
\* indices a, b have score(a) >= score(b), and no index left out has a score
\* greater than that of a returned index.
C2_RankedByDescendingScore ==
    pc = "returned" =>
        /\ \A p \in 1 .. Len(idx) - 1 : At(scores, idx[p]) >= At(scores, idx[p + 1])
        /\ \A j \in 0 .. Len(scores) - 1 :
              j \notin Range(idx) =>
                  \A p \in 1 .. Len(idx) : At(scores, j) <= At(scores, idx[p])

C2_Witness ==
    /\ pc = "returned"
    /\ Len(idx) = 2
    /\ Len(scores) = 3
    /\ At(scores, idx[1]) > At(scores, idx[2])
    /\ \E j \in 0 .. 2 : j \notin Range(idx) /\ At(scores, j) <= At(scores, idx[2])

\* C3: for every forest built by New and every value x, Score(x) lies in [0, 1];
\* it is 0 when the constant C is 0 (subsample size <= 1); otherwise the path
\* length is >= 0 and the score is 2^(-pathLength/C): 1 at exponent 0, halved by
\* every whole unit of the exponent, and within the octave of the exponent (up
\* to the rounding of the fixed-point power).
C3_ScoreInUnitInterval ==
    pc = "score" =>
        /\ (forest.C = 0) <=> (psi <= 1)
        /\ Len(forest.Trees) = NumTrees
        /\ \A x \in ScoredValues :
              LET sc == Score(forest, x)
                  E == pathLength(forest, x)
              IN  /\ 0 <= sc /\ sc <= FixedOne
                  /\ forest.C = 0 => sc = 0
                  /\ forest.C # 0 =>
                        LET q == FixDiv(E, forest.C)
                            whole == q \div FixedOne
                        IN  /\ E >= 0
                            /\ sc > 0
                            /\ q % FixedOne = 0 => sc = FixedOne \div Pow2Int(whole)
                            /\ sc <= FixedOne \div Pow2Int(whole)
                            /\ sc >= FixedOne \div Pow2Int(whole + 1) - PowBits

C3_Witness ==
    /\ pc = "score"
    /\ forest.C # 0
    /\ \E x \in Range(norm) :
          /\ pathLength(forest, x) > 0
          /\ Score(forest, x) > 0
          /\ Score(forest, x) < FixedOne

\* C4: logAnomalyEvents writes exactly one event for each selected index whose
\* score is >= threshold and none for any other, so the number of events is the
\* number of selected indices with score >= threshold (threshold 0.6, scores
\* [0.9, 0.3, 0.7], top indices [0, 2, 1]: two events); each event carries the
\* series' service label and the metric kind.
C4_OneEventPerIndexAtThreshold ==
    pc = "logged" =>
        /\ Len(events) =
              Cardinality({ p \in 1 .. Len(idx) :
                              /\ idx[p] >= 0
                              /\ idx[p] < Len(scores)
                              /\ At(scores, idx[p]) >= threshold })
        /\ \A e \in 1 .. Len(events) :
              /\ events[e].service = ServiceOf(At(series, 0))
              /\ events[e].service # ""
              /\ events[e].metric = metric
        /\ ( /\ threshold = (6 * FixedOne) \div 10
             /\ scores = << (9 * FixedOne) \div 10, (3 * FixedOne) \div 10,
                            (7 * FixedOne) \div 10 >>
             /\ idx = <<0, 2, 1>> ) => Len(events) = 2

C4_Witness ==
    /\ pc = "logged"
    /\ threshold = (6 * FixedOne) \div 10
    /\ scores = << (9 * FixedOne) \div 10, (3 * FixedOne) \div 10, (7 * FixedOne) \div 10 >>
    /\ idx = <<0, 2, 1>>
    /\ Len(events) = 2

\* the backend answered HTTP 2xx with status "success" and a data object that
\* holds a result list
AnsweredWithResult ==
    /\ reply.kind = "http"
    /\ reply.code \div 100 = 2
    /\ reply.body.valid
    /\ Lookup(reply.body.obj, "status") = "success"
    /\ "data" \in DOMAIN reply.body.obj
    /\ "result" \in DOMAIN reply.body.obj.data

\* the handler is past a fetch that returned no error
Fetched == pc \in {"loop", "done"} /\ ~err.isErr

\* the series of the batch, among the first n, that have sanitized points
KeptSeries(n) == { s \in 1 .. n : Len(allVals[s]) # 0 }

\* C5: "no data" is reported only when the backend's batch is empty: when the
\* backend answers HTTP 2xx, status "success" and a data object whose result
\* list holds a series with at least one well-formed sample, the handler
\* responds with the summary payload, which has a result entry for that series.
C5_NoDataOnlyWhenBatchEmpty ==
    (pc = "done" /\ AnsweredWithResult) =>
        LET result == reply.body.obj.data.result
        IN  \A s \in 1 .. Len(result) :
                WellFormedPairs(result[s].values) # <<>> =>
                    /\ response.code = 200
                    /\ \E e \in 1 .. Len(response.body.results) :
                          /\ response.body.results[e].labels = LabelsOf(result[s])
                          /\ response.body.results[e].points =
                                Len(WellFormedPairs(result[s].values))

\* C6: an upstream fetch failure (transport error, non-2xx status, backend
\* status other than "success") and an empty batch each abort the request: the
\* response is an error carrying the message of the fetch's error unchanged,
\* the backend was queried exactly once, no detection ran and no event was
\* written.
C6_FetchFailureAbortsRequest ==
    /\ backendCalls <= 1
    /\ pc # "idle" => backendCalls = 1
    /\ (pc # "idle" /\ reply.kind = "transport") => err = Err(reply.err)
    /\ (pc # "idle" /\ reply.kind = "http" /\ reply.code \div 100 # 2) =>
          err = Err(<<"mimir query_range failed: ", StatusText(reply.code)>>)
    /\ ( /\ pc # "idle" /\ reply.kind = "http" /\ reply.code \div 100 = 2
         /\ reply.body.valid /\ Lookup(reply.body.obj, "status") # "success" ) =>
          /\ err.isErr
          /\ err = QueryRange(reply).err
          /\ reply.body.obj.error = <<>> => err.msg = <<"query_range failed">>
          /\ reply.body.obj.error = <<"bad_data">> => err.msg = <<"bad_data">>
    /\ ( /\ pc # "idle" /\ reply.kind = "http" /\ reply.code \div 100 = 2
         /\ reply.body.valid /\ Lookup(reply.body.obj, "status") = "success"
         /\ "data" \in DOMAIN reply.body.obj
         /\ \/ reply.body.obj.data = Matrix(<<>>)
            \/ reply.body.obj.data = Wrapped(<<>>) ) =>
          err = Err(<<"no data">>)
    /\ (pc # "idle" /\ err.isErr) =>
          /\ pc = "done"
          /\ response = [code |-> 500, body |-> err.msg \o <<"\n">>]
          /\ i = 0
          /\ idx = <<>> /\ scores = <<>>
          /\ results = <<>>
          /\ events = <<>>

C6_Witness ==
    /\ pc = "done"
    /\ reply.kind = "http"
    /\ reply.code = 503
    /\ response = [code |-> 500,
                   body |-> <<"mimir query_range failed: ", "503 Service Unavailable",
                              "\n">>]
    /\ backendCalls = 1
    /\ events = <<>>

\* C7: in a non-empty batch a series with zero sanitized points is left out of
\* the results without failing the request, every other series has its own
\* result entry, in batch order, and the reported series count is the number of
\* result entries, not the number of series fetched.
C7_EmptySeriesSkipped ==
    Fetched =>
        /\ Len(series) > 0
        /\ Len(results) = Cardinality(KeptSeries(i))
        /\ \A s \in KeptSeries(i) :
              LET e == results[Cardinality({ t \in KeptSeries(i) : t <= s })]
              IN  /\ e.labels = LabelsOf(series[s])
                  /\ e.points = Len(allVals[s])
        /\ pc = "done" =>
              /\ i = Len(series)
              /\ response.code = 200
              /\ response.body.results = results
              /\ response.body.series = Len(results)

C7_Witness ==
    /\ pc = "done"
    /\ Len(series) = 2
    /\ Len(allVals[1]) = 0
    /\ Len(allVals[2]) # 0
    /\ response.code = 200
    /\ response.body.series = 1
    /\ response.body.results[1].labels = LabelsOf(series[2])

\* C8: the sanitizer replaces NaN and +/-Inf by 0 and passes every other value
\* through: sane(NaN) = (0, false), sane(+Inf) = (0, false), sane(v) = (v, true)
\* for finite v; a sanitized series holds no NaN and no infinity, and a bad
\* sample raises no error.
C8_SanitizerZeroesNonFinite ==
    /\ sane(FNaN) = <<FNum(0), FALSE>>
    /\ sane(FPosInf) = <<FNum(0), FALSE>>
    /\ sane(FNegInf) = <<FNum(0), FALSE>>
    /\ \A v \in {-FixedOne, 0, FixedOne, (7 * FixedOne) \div 2} :
          sane(FNum(v)) = <<FNum(v), TRUE>>
    /\ Fetched =>
          \A s \in 1 .. Len(allVals) : \A p \in 1 .. Len(allVals[s]) :
              LET raw == WellFormedPairs(series[s].values)[p][2]
              IN  /\ ~IsNaN(allVals[s][p]) /\ ~IsInf(allVals[s][p])
                  /\ raw \in {"NaN", "+Inf", "-Inf"} => allVals[s][p] = FNum(0)
                  /\ raw = "1" => allVals[s][p] = FNum(FixedOne)
                  /\ raw = "4" => allVals[s][p] = FNum(4 * FixedOne)
    /\ ( /\ pc # "idle" /\ reply.kind = "http" /\ reply.code = 200 /\ reply.body.valid
         /\ Lookup(reply.body.obj, "status") = "success"
         /\ "data" \in DOMAIN reply.body.obj
         /\ "data" \in DOMAIN reply.body.obj.data
         /\ reply.body.obj.data.data.result # <<>> ) => ~err.isErr

C8_Witness ==
    /\ pc = "done"
    /\ response.code = 200
    /\ Len(series) = 1
    /\ series[1].values = <<RawPair(1, "NaN"), RawPair(2, "+Inf")>>
    /\ allVals[1] = <<FNum(0), FNum(0)>>

\* C9: for every fetched series the sanitized values and the timestamps have
\* the same length, the number of raw pairs of arity 2, and keep the raw order:
\* a pair of wrong arity drops both its timestamp and its value, a pair with an
\* invalid magnitude keeps its timestamp, at the same position, with value 0.
C9_ValuesAndTimestampsAligned ==
    Fetched =>
        /\ Len(allVals) = Len(series)
        /\ Len(allTs) = Len(series)
        /\ \A s \in 1 .. Len(series) :
              LET wf == WellFormedPairs(series[s].values)
              IN  /\ Len(allVals[s]) = Len(wf)
                  /\ Len(allTs[s]) = Len(wf)
                  /\ \A p \in 1 .. Len(wf) :
                        /\ allTs[s][p] * FixedOne <= wf[p][1]
                        /\ wf[p][1] < (allTs[s][p] + 1) * FixedOne
                        /\ wf[p][2] \in {"NaN", "+Inf", "-Inf"} =>
                              allVals[s][p] = FNum(0)
                        /\ wf[p][2] = "1" => allVals[s][p] = FNum(FixedOne)
                        /\ wf[p][2] = "4" => allVals[s][p] = FNum(4 * FixedOne)

C9_Witness ==
    /\ pc = "loop"
    /\ Len(series) = 1
    /\ series[1].values = <<RawPair(1, "arity"), RawPair(2, "NaN")>>
    /\ allVals[1] = <<FNum(0)>>
    /\ allTs[1] = <<120>>

\* C10: in every result entry the score vector has one score per sanitized
\* point, each top entry reports the timestamp, the sanitized (un-normalized)
\* value and the score of one and the same index j of the series, with
\* 0 <= j < point count, and the entry has min(3, point count) top entries.
C10_TopEntriesAligned ==
    Fetched =>
        /\ \A s \in KeptSeries(i) :
              LET e == results[Cardinality({ t \in KeptSeries(i) : t <= s })]
              IN  /\ Len(e.top) = (IF e.points < 3 THEN e.points ELSE 3)
                  /\ \A p \in 1 .. Len(e.top) :
                        \E j \in 0 .. e.points - 1 :
                            /\ e.top[p].time = FormatRFC3339(At(allTs[s], j))
                            /\ e.top[p].value = At(allVals[s], j)
                            /\ 0 <= e.top[p].score /\ e.top[p].score <= FixedOne
        /\ KeptSeries(i) # {} =>
              LET s == CHOOSE t \in KeptSeries(i) : \A u \in KeptSeries(i) : u <= t
                  e == results[Len(results)]
              IN  /\ Len(scores) = e.points
                  /\ Len(idx) = Len(e.top)
                  /\ \A p \in 1 .. Len(idx) :
                        /\ 0 <= idx[p] /\ idx[p] < e.points
                        /\ e.top[p].time = FormatRFC3339(At(allTs[s], idx[p]))
                        /\ e.top[p].value = At(allVals[s], idx[p])
                        /\ e.top[p].score = At(scores, idx[p])

C10_Witness ==
    /\ pc = "done"
    /\ response.code = 200
    /\ Len(results) = 1
    /\ results[1].points = 4
    /\ Len(results[1].top) = 3
    /\ idx[1] = 3
    /\ results[1].top[1].value = FNum(4 * FixedOne)
    /\ results[1].top[1].time = FormatRFC3339(TimeUnix(RawSec(4)))

\* the nodes of a tree
RECURSIVE Subtrees(_)
Subtrees(t) ==
    IF t.Leaf THEN {t} ELSE {t} \cup Subtrees(t.Left) \cup Subtrees(t.Right)

\* the tree New fitted last, on the subsample it drew last
LastTree == trees[Len(trees)]

\* node t, given data at depth, is a leaf when data is empty, a singleton or
\* constant-valued, carries depth, and hands its partitions to its children
RECURSIVE LeafWhenDegenerate(_, _, _)
LeafWhenDegenerate(t, data, depth) ==
    /\ t.Depth = depth
    /\ (Len(data) <= 1 \/ \A a, b \in Range(data) : a = b) => t.Leaf
    /\ ~t.Leaf =>
          /\ LeafWhenDegenerate(t.Left, LeftPart(data, t.Split), depth + 1)
          /\ LeafWhenDegenerate(t.Right, RightPart(data, t.Split), depth + 1)

\* d = ceil(log2(n)) for n >= 1
IsCeilLog2(d, n) ==
    /\ d >= 0
    /\ Pow2Int(d) >= n
    /\ d > 0 => Pow2Int(d - 1) < n

RECURSIVE SplitInsideRange(_, _)
SplitInsideRange(t, data) ==
    t.Leaf \/
        /\ MinOf(data) < t.Split
        /\ t.Split < MaxOf(data)
        /\ LeftPart(data, t.Split) # <<>>
        /\ RightPart(data, t.Split) # <<>>
        /\ SplitInsideRange(t.Left, LeftPart(data, t.Split))
        /\ SplitInsideRange(t.Right, RightPart(data, t.Split))

\* C12: every internal node's split threshold lies strictly inside the range of
\* the data given to the node, min(data) < split < max(data), so its left
\* partition {v < split} and its right partition {v >= split} are non-empty.
C12_SplitStrictlyInsideRange ==
    (pc = "trees" /\ Len(trees) > 0) => SplitInsideRange(LastTree, subsample)

\* the series handed to detectAnomalies has one value throughout
ConstantSeries == Len(vals) >= 1 /\ \A p, q \in 1 .. Len(vals) : vals[p] = vals[q]

\* C13: for a constant-valued series every tree of the forest is a single leaf
\* at depth 0, the path length of every point is 0, and every point's score is
\* 2^(0/C) = 1 by the score formula, or 0 when C = 0 (a single point).
C13_ConstantSeriesSingleLeaf ==
    ConstantSeries =>
        /\ pc \in {"trees", "score"} =>
              \A t \in 1 .. Len(trees) : trees[t] = LeafNode(0)
        /\ pc = "score" =>
              /\ forest.Trees = [t \in 1 .. NumTrees |-> LeafNode(0)]
              /\ (forest.C = 0) <=> (Len(vals) = 1)
              /\ \A x \in ScoredValues : pathLength(forest, x) = 0
        /\ pc \in {"sort", "returned"} =>
              /\ Len(scores) = Len(vals)
              /\ \A p \in 1 .. Len(scores) :
                    scores[p] = (IF Len(vals) = 1 THEN 0 ELSE FixedOne)

\* C14: a degenerate series (constant-valued, or a single point) never causes
\* an error or a crash in detection, and every point of it gets a zero score.
C14_DegenerateSeriesZeroScores ==
    (ConstantSeries \/ Len(vals) = 1) =>
        /\ pc # "panic"
        /\ pc \in {"sort", "returned"} =>
              /\ Len(scores) = Len(vals)
              /\ \A p \in 1 .. Len(scores) : scores[p] = 0

\* largest n for which c(n) is compared with its exact rational value
MaxExactN == 8

\* m! and the numerator of H(m) over m!
RECURSIVE Fact(_)
Fact(m) == IF m <= 0 THEN 1 ELSE m * Fact(m - 1)
RECURSIVE HarmonicNum(_)
HarmonicNum(m) == IF m <= 0 THEN 0 ELSE m * HarmonicNum(m - 1) + Fact(m - 1)

\* averagePathLength on -1 .. SubsampleCap, tabulated
AveragePathLengths == [n \in -1 .. SubsampleCap |-> averagePathLength(n)]

\* C15: averagePathLength(n) is 0 for n <= 1, 1 for n = 2, and for n >= 2 it is
\* 2 H(n-1) - 2 (n-1)/n, which is strictly positive; the forest's constant C is
\* averagePathLength of the clamped subsample size.
C15_AveragePathLength ==
    pc = "score" =>
        /\ \A n \in -1 .. 1 : AveragePathLengths[n] = 0
        /\ AveragePathLengths[2] = FixedOne
        /\ \A n \in 2 .. SubsampleCap : AveragePathLengths[n] > 0
        /\ \A n \in 2 .. MaxExactN :
              LET den == Fact(n - 1) * n
                  num == 2 * HarmonicNum(n - 1) * n - 2 * (n - 1) * Fact(n - 1)
                  dif == AveragePathLengths[n] * den - num * FixedOne
              IN  dif <= n * den /\ -dif <= n * den
        /\ psi = (IF Len(vals) < SubsampleCap THEN Len(vals) ELSE SubsampleCap)
        /\ forest.C = AveragePathLengths[psi]
        /\ Len(vals) <= 1 => forest.C = 0
        /\ Len(vals) = 2 => forest.C = FixedOne
        /\ Len(vals) >= 2 => forest.C > 0

C15_Witness ==
    /\ pc = "score"
    /\ Len(vals) = 3
    /\ psi = 3
    /\ forest.C > FixedOne
    /\ forest.C < 2 * FixedOne

\* C16: normalization returns a series of the length of its input,
\* gives equal outputs for equal inputs, and maps a constant input series to a
\* series of zeros.
C16_ConstantNormalizesToZeros ==
    pc = "normed" =>
        /\ Len(norm) = Len(vals)
        /\ \A p, q \in 1 .. Len(vals) : vals[p] = vals[q] => norm[p] = norm[q]
        /\ ConstantSeries => \A p \in 1 .. Len(norm) : norm[p] = FNum(0)

\* C17: once an in-flight request is cancelled, no further series of it is
\* processed (no detection is run, no result entry is added) and no further
\* anomaly event is emitted for it.
C17_CancelAbandonsSeries ==
    [][cancelled => (idx' = idx /\ scores' = scores /\ results' = results
                                /\ events' = events)]_vars

Discovered == backendCalls > 0 /\ ~err.isErr /\ Len(services) > 0

\* lines of the startup log with the given text
LinesWith(text) == { j \in 1 .. Len(startupLog) : startupLog[j].text = text }

\* C20: startup discovery makes at most 30 attempts, makes a further attempt
\* only when no attempt so far returned no error and at least one service, and
\* once it is over it has logged "anomalies will be detected on services"
\* exactly once if such an attempt occurred and never otherwise, in which case
\* it has made all 30 attempts and logged once that services could not be
\* listed.
C20_BoundedStartupDiscovery ==
    /\ backendCalls <= MaxAttempts
    /\ pc = "startup" =>
          /\ backendCalls = attempt - 1
          /\ attempt > 1 => ~Discovered
    /\ pc = "report" => Discovered /\ backendCalls = attempt
    /\ pc \in {"startup", "report"} =>
          /\ LinesWith(DetectedLine(<<>>).text) = {}
          /\ LinesWith(CouldNotListLine(Nil).text) = {}
    /\ pc = "serving" =>
          /\ Discovered =>
                /\ Cardinality(LinesWith(DetectedLine(<<>>).text)) = 1
                /\ LinesWith(CouldNotListLine(Nil).text) = {}
                /\ startupLog[Len(startupLog)] = DetectedLine(services)
          /\ ~Discovered =>
                /\ backendCalls = MaxAttempts
                /\ LinesWith(DetectedLine(<<>>).text) = {}
                /\ Cardinality(LinesWith(CouldNotListLine(Nil).text)) = 1

\* discovery found two services at its third attempt
C20_Witness ==
    /\ pc = "serving"
    /\ backendCalls = 3
    /\ services = <<"cart", "web">>
    /\ startupLog = <<WaitingLine(1, Err(<<"connection refused">>)),
                      DetectedLine(<<"cart", "web">>)>>

\* every split stored in tree t lies within [lo, hi]
SplitsWithin(t, lo, hi) ==
    \A n \in Subtrees(t) : ~n.Leaf => (lo <= n.Split /\ n.Split <= hi)

\* C23: New(data, t, psi) takes |data| for psi when psi <= 0 or psi > |data|,
\* builds exactly t trees, each from its own subsample of exactly psi values
\* that are elements of data (drawn with replacement), and every split stored
\* in a tree lies within [min(data), max(data)].
C23_NewClampsAndSubsamples ==
    /\ pc = "new" =>
          \A t \in 0 .. NumTrees : \A p \in -1 .. Len(norm) + 1 :
              LET size == IF p <= 0 \/ p > Len(norm) THEN Len(norm) ELSE p
              IN  \A f \in New(norm, t, p) :
                      /\ Len(f.Trees) = t
                      /\ f.C = AveragePathLengths[size]
                      /\ \A j \in 1 .. t :
                            /\ f.Trees[j] \in NewTrees(norm, size)
                            /\ f.Trees[j].Leaf \/
                                  SplitsWithin(f.Trees[j], MinOf(norm), MaxOf(norm))
    /\ (pc = "trees" /\ Len(trees) > 0) =>
          /\ psi = (IF Len(norm) > SubsampleCap THEN SubsampleCap ELSE Len(norm))
          /\ Len(trees) <= NumTrees
          /\ Len(subsample) = psi
          /\ \A j \in 1 .. psi : subsample[j] \in Range(norm)
          /\ LastTree \in fitTree(subsample, 0, maxDepth)
          /\ LastTree.Leaf \/ SplitsWithin(LastTree, MinOf(norm), MaxOf(norm))
    /\ pc = "score" => Len(forest.Trees) = NumTrees

\* the second tree is fitted on a subsample that holds one point twice and
\* another once, and splits it
C23_Witness ==
    /\ pc = "trees"
    /\ Len(trees) = NumTrees
    /\ psi = 3
    /\ subsample[1] = subsample[2]
    /\ subsample[1] # subsample[3]
    /\ ~LastTree.Leaf

\* the occurrences of value v in data
Occurrences(data, v) == Cardinality({j \in 1 .. Len(data) : data[j] = v})

\* node t was given data at depth: an internal node hands the values below
\* its split to the left child and the others to the right child, every value
\* to exactly one of them, each child one level deeper
RECURSIVE PartitionedBySplit(_, _, _)
PartitionedBySplit(t, data, depth) ==
    /\ t.Depth = depth
    /\ ~t.Leaf =>
          LET left == LeftPart(data, t.Split)
              right == RightPart(data, t.Split)
          IN  /\ \A v \in Range(left) : v < t.Split
              /\ \A v \in Range(right) : v >= t.Split
              /\ \A v \in Range(data) :
                    Occurrences(left, v) + Occurrences(right, v) = Occurrences(data, v)
              /\ Len(left) + Len(right) = Len(data)
              /\ PartitionedBySplit(t.Left, left, depth + 1)
              /\ PartitionedBySplit(t.Right, right, depth + 1)

\* the depth of the leaf of t whose partition of data holds the value x
RECURSIVE HolderDepth(_, _, _)
HolderDepth(t, data, x) ==
    IF t.Leaf THEN t.Depth
    ELSE IF x \in Range(LeftPart(data, t.Split))
    THEN HolderDepth(t.Left, LeftPart(data, t.Split), x)
    ELSE HolderDepth(t.Right, RightPart(data, t.Split), x)

\* the sum over the first n trees of f of the depth of the leaf x reaches
RECURSIVE LeafDepthSum(_, _, _)
LeafDepthSum(f, x, n) ==
    IF n = 0 THEN 0 ELSE LeafDepthSum(f, x, n - 1) + pathLenTree(f.Trees[n], x)

\* C24: fitTree hands an internal node's data to its children as
\* left = {v < split} and right = {v >= split}, together exactly the data, each
\* child one level deeper; the path length of x in a tree is the stored depth
\* of the leaf reached by going left when x < split and right otherwise, with
\* nothing added for the size of the leaf, and the forest's path length is the
\* average of these over its trees; a value of the tree's own subsample reaches
\* the leaf whose partition held it.
C24_PartitionAndPathLength ==
    /\ (pc = "trees" /\ Len(trees) > 0) =>
          /\ PartitionedBySplit(LastTree, subsample, 0)
          /\ \A x \in Range(subsample) :
                pathLenTree(LastTree, x) = HolderDepth(LastTree, subsample, x) * FixedOne
          /\ \A x \in ScoredValues :
                \E n \in Subtrees(LastTree) :
                    n.Leaf /\ pathLenTree(LastTree, x) = n.Depth * FixedOne
    /\ pc = "score" =>
          \A x \in ScoredValues :
              /\ Len(forest.Trees) = NumTrees
              /\ pathLength(forest, x) = LeafDepthSum(forest, x, NumTrees) \div NumTrees

\* a tree whose split equals the smallest value of its subsample: the left
\* partition is empty, and the smallest value is found in the right leaf
C24_Witness ==
    /\ pc = "trees"
    /\ Len(trees) > 0
    /\ ~LastTree.Leaf
    /\ LastTree.Split = MinOf(subsample)
    /\ pathLenTree(LastTree, MinOf(subsample)) = LastTree.Right.Depth * FixedOne
    /\ LastTree.Right.Leaf

\* C25: logAnomalyEvents leaves the score vector and the index list as they
\* were, so what the response is built from is the same whether or not events
\* were emitted; an index outside 0 .. len(scores)-1 is passed over without an
\* event and without a crash: the call returns with one event for each index
\* that is inside the range and at the threshold.
C25_LogLeavesScoresAndIndices ==
    /\ [](pc = "logged" =>
            Len(events) = Cardinality({ p \in 1 .. Len(idx) :
                                          /\ idx[p] >= 0
                                          /\ idx[p] < Len(scores)
                                          /\ scores[idx[p] + 1] >= threshold }))
    /\ [][pc = "log" => (pc' = "logged" /\ idx' = idx /\ scores' = scores)]_vars

\* of the indices -1, 0 and 3 only 0 is inside the one-point score vector
C25_Witness ==
    /\ pc = "logged"
    /\ idx = <<-1, 0, 3>>
    /\ Len(scores) = 1
    /\ Len(events) = 1

\* C26: for a constant-valued series of at least 2 points every selected top
\* point has score exactly 1, so one anomaly event is emitted for each of the
\* min(K, length) selected points at any threshold <= 1; a single-point series
\* has score 0 and emits no event at any threshold > 0.
C26_FlatSeriesAlwaysReported ==
    (ConstantSeries /\ pc = "returned") =>
        /\ Len(idx) = min(k, Len(vals))
        /\ Len(vals) >= 2 =>
              /\ \A p \in 1 .. Len(idx) : At(scores, idx[p]) = FixedOne
              /\ \A thr \in Thresholds :
                    Len(logAnomalyEvents("cart", "rps", idx, scores, thr)) = Len(idx)
        /\ Len(vals) = 1 =>
              /\ scores = <<0>>
              /\ \A thr \in Thresholds :
                    logAnomalyEvents("cart", "rps", idx, scores, thr) = <<>>

\* main has called http.ListenAndServe
Listening == pc \notin {"startup", "report", "serving"}

\* the lines with which the discovery loop reports its outcome
OutcomeLines ==
    LinesWith(DetectedLine(<<>>).text) \cup LinesWith(CouldNotListLine(Nil).text)

Given(key) ==
    LET raw == mcpReq.params.arguments
    IN  IF raw.kind = "object" /\ key \in DOMAIN raw.fields THEN raw.fields[key]
        ELSE JAbsent

\* the one request of SpecMcp was answered
AnsweredOne == Len(mcpAnswered) = 1

\* C21: for every tools/call the optional arguments take their documented
\* defaults before the backend is queried: the query is made with window 10
\* when windowMinutes is missing or not positive, with limit 5 when limit is
\* missing or not positive, and with quantile 0.95 when quantile is missing or
\* outside the open interval (0, 1); a value in range is used as given.
C21_DefaultsBeforeQuery ==
    (AnsweredOne /\ mcpQueries # <<>>) =>
        LET q == mcpQueries[1]
            w == Given("windowMinutes")
            l == Given("limit")
            u == Given("quantile")
        IN  /\ Len(mcpQueries) = 1
            /\ (w.t = "absent" \/ (w.t = "num" /\ w.n <= 0)) =>
                  q.windowM = DefaultWindowMinutes
            /\ (w.t = "num" /\ w.n > 0 /\ w.n % FixedOne = 0) =>
                  q.windowM = w.n \div FixedOne
            /\ q.fn \in {"getTopCallers", "getTopEndpoints"} =>
                  /\ (l.t = "absent" \/ (l.t = "num" /\ l.n <= 0)) =>
                        q.limit = DefaultLimit
                  /\ (l.t = "num" /\ l.n > 0) => q.limit = l.n \div FixedOne
            /\ q.fn = "getLatencyQuantile" =>
                  /\ (u.t = "absent" \/ (u.t = "num" /\ (u.n <= 0 \/ u.n >= FixedOne))) =>
                        q.quantile = DefaultQuantile
                  /\ (u.t = "num" /\ u.n > 0 /\ u.n < FixedOne) => q.quantile = u.n

\* top callers asked with limit 0 and windowMinutes -5: the query is made with
\* limit 5 and window 10
C21_Witness ==
    /\ AnsweredOne
    /\ Given("limit") = JNum(0)
    /\ Given("windowMinutes") = JNum(-5 * FixedOne)
    /\ mcpQueries = << [fn |-> "getTopCallers", client |-> "", server |-> "cart",
                        quantile |-> 0, limit |-> 5, windowM |-> 10] >>
    /\ mcpResp.Result # NilResult

\* C22: a tools/call of an advertised tool whose arguments omit, or leave
\* empty, an argument that the tool's inputSchema lists as required is rejected
\* with the invalid-params error -32602, and no query is sent to the backend.
C22_RequiredArgumentsEnforced ==
    LET p == UnmarshalParams(mcpReq.params)
    IN  ( /\ AnsweredOne
          /\ mcpReq.method = "tools/call"
          /\ ~p.err.isErr
          /\ \E key \in RequiredArgs(p.name) :
                Given(key) \in {JAbsent, JStr("")} ) =>
            /\ mcpResp.Error.Code = -32602
            /\ mcpQueries = <<>>

\* the request in mcpReq is a tools/call whose params decode and name a tool,
\* and whose arguments are given but are reported by json.Unmarshal: they are
\* no object, or give a field a value of the wrong type
ArgumentsUndecodable ==
    LET p == UnmarshalParams(mcpReq.params)
    IN  /\ mcpReq.method = "tools/call"
        /\ ~p.err.isErr
        /\ ArgFields(p.name) # {}
        /\ p.arguments.kind # "missing"
        /\ UnmarshalArguments(p.arguments, p.name, ZeroArgs).err.isErr

\* what C28 states of every request but the calls with undecodable arguments
ResponseAsClassified ==
    LET p == UnmarshalParams(mcpReq.params)
        latency == {"servicegraph_latency_p95", "spanmetrics_latency_quantile"}
    IN  /\ mcpResp.ID = mcpReq.id
        /\ mcpResp.JSONRPC = "2.0"
        /\ mcpStatus = 200
        /\ \/ EncodedKeys(mcpResp) = {"id", "jsonrpc", "result"}
           \/ EncodedKeys(mcpResp) = {"id", "jsonrpc", "error"}
        /\ mcpResp.Error.Code \in {0, -32601, -32602, -32000}
        /\ mcpResp.Error.isNil <=> mcpResp.Error.Code = 0
        /\ mcpReq.method \notin {"initialize", "tools/list", "tools/call", "shutdown"} =>
              mcpResp.Error.Code = -32601
        /\ mcpReq.method \in {"initialize", "tools/list", "shutdown"} =>
              mcpResp.Error.isNil
        /\ mcpReq.method = "tools/call" =>
              /\ p.err.isErr => mcpResp.Error.Code = -32602
              /\ (~p.err.isErr /\ ArgFields(p.name) = {}) => mcpResp.Error.Code = -32601
              /\ ( /\ ~p.err.isErr /\ p.name \in latency
                   /\ \/ Given("client") \in {JAbsent, JStr("")}
                      \/ Given("server") \in {JAbsent, JStr("")} ) =>
                    mcpResp.Error.Code = -32602
              /\ mcpResp.Error.Code = -32000 <=>
                    (mcpQueries # <<>> /\ QueryRange(mcpReply).err.isErr)
              /\ mcpResp.Error.isNil <=>
                    (mcpQueries # <<>> /\ ~QueryRange(mcpReply).err.isErr)

\* C28 as claimed: handle answers every request with a response that echoes
\* the id with jsonrpc "2.0" and has exactly one of result and error; an
\* unknown method or tool gets -32601, undecodable params or arguments or a
\* latency tool without client or server -32602, a failed backend query -32000.
C28_ErrorCodesAsClaimed ==
    AnsweredOne =>
        /\ ResponseAsClassified
        /\ ArgumentsUndecodable => mcpResp.Error.Code = -32602

\* C28 as amended: the same, where undecodable arguments get -32602 for every
\* tool but servicegraph_topology, whose case ignores them, takes its default
\* and queries the backend.
C28_ErrorCodesPerTool ==
    AnsweredOne =>
        /\ ResponseAsClassified
        /\ ArgumentsUndecodable =>
              IF UnmarshalParams(mcpReq.params).name = "servicegraph_topology"
              THEN /\ mcpQueries = << [fn |-> "getTopology", client |-> "", server |-> "",
                                       quantile |-> 0, limit |-> 0,
                                       windowM |-> DefaultWindowMinutes] >>
                   /\ mcpResp.Error.Code \in {0, -32000}
              ELSE mcpResp.Error.Code = -32602 /\ mcpQueries = <<>>

\* top callers asked with a windowMinutes of 0.5: -32602 and no query
C28_Witness ==
    /\ AnsweredOne
    /\ UnmarshalParams(mcpReq.params).name = "spanmetrics_top_callers"
    /\ Given("windowMinutes") = JNum(FixedOne \div 2)
    /\ Given("server") = JStr("cart")
    /\ ArgumentsUndecodable
    /\ mcpResp.Error.Code = -32602
    /\ EncodedKeys(mcpResp) = {"id", "jsonrpc", "error"}
    /\ mcpResp.ID = JNum(7 * FixedOne)
    /\ mcpQueries = <<>>

\* C29: the MCP server keeps no session state: whatever requests came before,
\* the response to a request, and the query made for it, are those that the
\* request and the backend's answer give on their own; tools/list and
\* tools/call are served without an initialize before them; shutdown returns
\* an empty result and the server goes on serving.
C29_NoSessionState ==
    /\ []mcpServing
    /\ [](mcpReq.method = "shutdown" => mcpResp = ok(mcpReq.id, EmptyObject))
    /\ [](mcpReq.method = "tools/list" => mcpResp = ok(mcpReq.id, ToolsList))
    /\ [][Len(mcpAnswered') = Len(mcpAnswered) + 1 =>
            IF mcpStatus' = 200
            THEN \E rep \in McpReplies :
                    LET h == handle(mcpReq', rep, ZeroArgs)
                    IN  /\ mcpResp' = h.resp
                        /\ mcpQueries' = mcpQueries \o h.queries
                        /\ h.queries # <<>> => mcpReply' = rep
            ELSE mcpQueries' = mcpQueries /\ mcpResp' = NoRpcResponse]_vars

\* after a shutdown and without any initialize, tools/list was answered and
\* then a call of spanmetrics_rps without arguments, queried with its defaults
C29_Witness ==
    /\ mcpAnswered = <<"shutdown", "tools/list", "tools/call">>
    /\ mcpServing
    /\ mcpResp.Result # NilResult
    /\ mcpQueries = << [fn |-> "getRPS", client |-> "", server |-> "",
                        quantile |-> 0, limit |-> 0, windowM |-> 10] >>

====
